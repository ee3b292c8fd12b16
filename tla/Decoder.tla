------------------------------ MODULE Decoder -------------------------------
(***************************************************************************)
(* luapb_decode: src/src/Decoder.cpp and the reading half of PBStream in   *)
(* src/src/Stream.cpp, byte by byte over the input.                        *)
(*                                                                         *)
(* RawDecode is recursive; a stack of frames stands for its active calls.  *)
(* One action is one iteration of its loop: ReadFieldNumber, then what the *)
(* field found asks for.  PBStream reads through a CodedInputStream of the *)
(* protobuf library, whose position, limit, recursion depth and            *)
(* ConsumedEntireMessage flag are part of the state.                       *)
(*                                                                         *)
(* Neither ReadValue nor RawDecode looks at whether a read succeeded.  The *)
(* history variable faults records what went unnoticed:                    *)
(*   "tag"      a tag that is no varint, or has field number 0             *)
(*   "unknown"  a field number without a field, whose payload is not read  *)
(*   "value"    a value that is cut short, of an unsupported type, or an   *)
(*              unknown enumerator                                         *)
(*   "head"     BeginMessage failed on the length                          *)
(*   "deep"     BeginMessage failed on the recursion limit                 *)
(*   "end"      EndMessage failed and left limit and depth as they were    *)
(*   "uninit"   EndMessage popped a limit BeginMessage never stored        *)
(***************************************************************************)
EXTENDS Wire, SequencesExt

CONSTANTS
    Schema,          \* message type -> field name -> field descriptor (module Wire)
    Registered,      \* the message types FindMessage finds
    Inputs,          \* the calls of luapb_decode: [name, data]
    RecursionLimit,  \* CodedInputStream's, 100 by default
    NoField,
    BadArg,          \* an argument luaL_checklstring rejects
    Unset            \* the local variable limit before it is assigned

ASSUME SchemaAssumption ==
    \A d \in DOMAIN Schema : \A f \in DOMAIN Schema[d] :
        /\ f # NoField
        /\ IsFieldDescriptor(Schema[d][f])
        /\ Schema[d][f].type = "message" => Schema[d][f].msg \in DOMAIN Schema
        /\ \A g \in DOMAIN Schema[d] : Schema[d][f].number = Schema[d][g].number => f = g

ASSUME RegisteredAssumption == Registered \subseteq DOMAIN Schema /\ BadArg \notin Registered

ASSUME InputsAssumption == \A c \in Inputs : c.data = BadArg \/ c.data \in Seq(Byte)

ASSUME LimitAssumption == RecursionLimit \in Nat /\ Unset \notin Nat

VARIABLES
    phase,   \* "idle", "reading", "done" (the table is complete), or "dead"
    buf,     \* the bytes being decoded
    pos,     \* CodedInputStream::CurrentPosition
    limit,   \* CodedInputStream::current_limit_
    legit,   \* CodedInputStream::legitimate_message_end_
    depth,   \* CodedInputStream's recursion depth
    stack,   \* frames of RawDecode: [desc, tab, via, saved], see Frame
    faults,  \* history: see above
    ret      \* how the last call ended

vars == <<phase, buf, pos, limit, legit, depth, stack, faults, ret>>

Faults == {"tag", "unknown", "value", "head", "deep", "end", "uninit"}

EmptyTable == [f \in {} |-> <<>>]

(* A frame fills tab; the frame below stores it under field via and then   *)
(* passes saved to EndMessage.                                             *)
Frame(desc, via, saved) == [desc |-> desc, tab |-> EmptyTable, via |-> via, saved |-> saved]

Top == Last(stack)

-----------------------------------------------------------------------------
(***************************************************************************)
(* The protobuf library, reading from position p.  A varint has at most    *)
(* ten bytes.  A read that fails leaves the position alone when ten bytes  *)
(* without an end are there, and moves it to the limit when fewer are.     *)
(***************************************************************************)
kMaxVarintBytes == 10

IsVarint(p, n) ==
    /\ p + n <= limit
    /\ buf[p + n] < 128
    /\ \A m \in 1..(n - 1) : buf[p + m] >= 128

HasVarint(p) == \E n \in 1..kMaxVarintBytes : IsVarint(p, n)
VarintBytes(p) == CHOOSE n \in 1..kMaxVarintBytes : IsVarint(p, n)

AfterVarint(p) ==
    IF HasVarint(p) THEN p + VarintBytes(p)
    ELSE IF limit - p >= kMaxVarintBytes THEN p ELSE limit

GroupAt(p, k) == IF k <= VarintBytes(p) THEN buf[p + k] % 128 ELSE 0

Low28(p) == GroupAt(p, 1) + 128 * GroupAt(p, 2) + 16384 * GroupAt(p, 3) + 2097152 * GroupAt(p, 4)
Top4(p) == GroupAt(p, 5) % 16

(* The varint as an int32, and the field number of the varint as a tag. *)
Int32At(p) ==
    IF ~HasVarint(p) THEN 0
    ELSE Low28(p) + (IF Top4(p) >= 8 THEN Top4(p) - 16 ELSE Top4(p)) * 268435456

FieldNumberAt(p) ==
    IF HasVarint(p) THEN Low28(p) \div 8 + Top4(p) * 33554432 ELSE 0

BoolAt(p) ==
    IF HasVarint(p) /\ \E k \in 1..VarintBytes(p) :
            GroupAt(p, k) % (IF k = kMaxVarintBytes THEN 2 ELSE 128) # 0
    THEN 1 ELSE 0

SmallerOf(a, b) == IF a < b THEN a ELSE b

-----------------------------------------------------------------------------
(* PBStream::ReadFieldNumber: ReadTag notes when it is called at the limit. *)
FieldNumber == FieldNumberAt(pos)
AfterTag_Peeks == pos
AfterTag == AfterVarint(pos)
LegitAfterTag == legit \/ pos = limit

IsFieldOf(f, d, number) == f \in DOMAIN Schema[d] /\ Schema[d][f].number = number

(***************************************************************************)
(* PBStream::ReadValue at position p: the value it fills in whether or not *)
(* the read succeeded, where it stops, and whether anything was wrong.     *)
(***************************************************************************)
IsVarintType(t) == t \in {"int32", "uint32", "bool", "enum"}
IsTextType(t) == t \in {"string", "int64", "uint64"}

(* ReadString: as many bytes as there are, none if the length is negative. *)
StringLength(p) ==
    IF Int32At(p) < 0 THEN 0 ELSE SmallerOf(Int32At(p), limit - AfterVarint(p))

AfterValue(t, p) ==
    IF IsVarintType(t) THEN AfterVarint(p) ELSE
    IF IsTextType(t) THEN AfterVarint(p) + StringLength(p) ELSE
    IF t = "float" THEN SmallerOf(p + 4, limit)
    ELSE p

ValueAt(t, p) ==
    IF t = "bool" THEN <<BoolAt(p)>> ELSE
    IF IsVarintType(t) THEN <<Int32At(p)>> ELSE
    IF IsTextType(t) THEN SubSeq(buf, AfterVarint(p) + 1, AfterVarint(p) + StringLength(p)) ELSE
    IF p + 4 <= limit THEN SubSeq(buf, p + 1, p + 4)
    ELSE <<0, 0, 0, 0>>

IsValueCut(t, p) ==
    \/ (IsVarintType(t) \/ IsTextType(t)) /\ ~HasVarint(p)
    \/ IsTextType(t) /\ StringLength(p) # Int32At(p)
    \/ t = "float" /\ p + 4 > limit

(* No value is filled in for an enumerator without a name and for a type   *)
(* ReadValue has no case for: both hand a std::string to printf, which is  *)
(* undefined and may end the process.                                      *)
IsValueLost(fd, p) ==
    \/ fd.type = "enum" /\ \A n \in DOMAIN fd.enum : fd.enum[n] # Int32At(p)
    \/ fd.type = "other"

(* The macro FillValue, and the end of RawDecode's message case. *)
FillValue(tab, f, fd, v) ==
    LET old == IF f \in DOMAIN tab THEN tab[f] ELSE <<>> IN
    [g \in DOMAIN tab \cup {f} |->
        IF g # f THEN tab[g] ELSE IF fd.repeated THEN Append(old, v) ELSE <<v>>]

-----------------------------------------------------------------------------
Init ==
    /\ phase = "idle" /\ ret = "none"
    /\ buf = <<>> /\ pos = 0 /\ limit = 0 /\ legit = FALSE /\ depth = 0
    /\ stack = <<>> /\ faults = {}

(* luapb_decode up to the first RawDecode. *)
Decode(c) ==
    /\ phase = "idle"
    /\ IF c.name \in Registered /\ c.data # BadArg
       THEN /\ phase' = "reading" /\ ret' = "none"
            /\ buf' = c.data /\ pos' = 0 /\ limit' = Len(c.data) /\ legit' = FALSE /\ depth' = 0
            /\ stack' = <<Frame(c.name, NoField, Unset)>> /\ faults' = {}
       ELSE /\ ret' = IF BadArg \in {c.name, c.data} THEN "raise" ELSE "nothing"
            /\ UNCHANGED <<phase, buf, pos, limit, legit, depth, stack, faults>>

(* Undefined behaviour the model does not follow any further. *)
Die == phase' = "dead" /\ ret' = "undefined" /\ UNCHANGED stack

SkipUnknown_Rereads ==
    /\ phase = "reading" /\ FieldNumber # 0
    /\ \A f \in DOMAIN Schema[Top.desc] : ~IsFieldOf(f, Top.desc, FieldNumber)
    /\ faults' = faults \cup {"unknown"}
    /\ UNCHANGED <<phase, buf, pos, limit, legit, depth, stack, ret>>

(* if (fd == nullptr) continue; *)
SkipUnknown ==
    /\ phase = "reading" /\ FieldNumber # 0
    /\ \A f \in DOMAIN Schema[Top.desc] : ~IsFieldOf(f, Top.desc, FieldNumber)
    /\ pos' = AfterTag
    /\ faults' = faults \cup {"unknown"}
    /\ UNCHANGED <<phase, buf, limit, legit, depth, stack, ret>>

(* stream->ReadValue(tab, fd); *)
ReadValue(f) ==
    /\ phase = "reading" /\ FieldNumber # 0
    /\ IsFieldOf(f, Top.desc, FieldNumber)
    /\ LET fd == Schema[Top.desc][f] IN
       /\ fd.type # "message"
       /\ pos' = AfterValue(fd.type, AfterTag)
       /\ IF IsValueLost(fd, AfterTag)
          THEN /\ faults' = faults \cup {"value"}
               /\ Die \/ UNCHANGED <<phase, stack, ret>>
          ELSE /\ faults' = faults \cup (IF IsValueCut(fd.type, AfterTag) THEN {"value"} ELSE {})
               /\ stack' = [stack EXCEPT ![Len(stack)] =
                     [desc |-> Top.desc, via |-> Top.via, saved |-> Top.saved,
                      tab |-> FillValue(Top.tab, f, fd, [type |-> fd.type,
                                                        val |-> ValueAt(fd.type, AfterTag)])]]
               /\ UNCHANGED <<phase, ret>>
    /\ UNCHANGED <<buf, limit, legit, depth>>

(* PBStream::BeginMessage at position p, whose result nobody looks at. *)
BeginMessage(p) ==
    /\ pos' = AfterVarint(p)
    /\ depth' = IF HasVarint(p) THEN depth + 1 ELSE depth
    /\ limit' = IF HasVarint(p) /\ depth < RecursionLimit /\ Int32At(p) >= 0
                THEN AfterVarint(p) + SmallerOf(Int32At(p), limit - AfterVarint(p)) ELSE limit
    /\ faults' = faults \cup (IF ~HasVarint(p) THEN {"head"} ELSE
                              IF depth >= RecursionLimit THEN {"deep"} ELSE {})

(* What BeginMessage leaves in its argument. *)
SavedBy(p) == IF HasVarint(p) /\ depth < RecursionLimit THEN limit ELSE Unset

(* stream->BeginMessage(limit); RawDecode(L, stream, fd->message_type()) *)
EnterMessage(f) ==
    /\ phase = "reading" /\ FieldNumber # 0
    /\ IsFieldOf(f, Top.desc, FieldNumber)
    /\ Schema[Top.desc][f].type = "message"
    /\ BeginMessage(AfterTag)
    /\ stack' = Append(stack, Frame(Schema[Top.desc][f].msg, f, SavedBy(AfterTag)))
    /\ UNCHANGED <<phase, buf, legit, ret>>

(* The nested table, stored in the frame below. *)
Stored ==
    LET below == stack[Len(stack) - 1] IN
    [Front(stack) EXCEPT ![Len(stack) - 1] =
        [desc |-> below.desc, via |-> below.via, saved |-> below.saved,
         tab |-> FillValue(below.tab, Top.via, Schema[below.desc][Top.via], Top.tab)]]

TagFaults == IF pos = limit THEN {} ELSE {"tag"}

(* What EndMessage does to the stream when it succeeds. *)
PopLimit_ToEnd(l) == limit' = Len(buf) /\ legit' = FALSE
PopLimit_Missing(l) == limit' = limit /\ legit' = FALSE
PopLimit(l) == limit' = l /\ legit' = FALSE

DecrementRecursionDepth_Unguarded == depth' = depth - 1
DecrementRecursionDepth_Missing == depth' = depth
DecrementRecursionDepth == depth' = IF depth > 0 THEN depth - 1 ELSE depth

(* The nested RawDecode returns and EndMessage fails: not at the limit. *)
EndMessageFails ==
    /\ ~LegitAfterTag
    /\ faults' = faults \cup TagFaults \cup {"end"}
    /\ stack' = Stored
    /\ legit' = LegitAfterTag
    /\ UNCHANGED <<phase, limit, depth, ret>>

(* It succeeds.  With a limit before the position, which only a limit that *)
(* was never stored leads to, the stream reads on past its end.            *)
EndMessageSucceeds ==
    /\ LegitAfterTag /\ Top.saved # Unset
    /\ faults' = faults \cup TagFaults
    /\ DecrementRecursionDepth
    /\ \/ /\ Top.saved >= AfterTag
          /\ stack' = Stored
          /\ PopLimit(Top.saved)
          /\ UNCHANGED <<phase, ret>>
       \/ /\ Top.saved < AfterTag
          /\ Die /\ UNCHANGED <<limit, legit>>

(* A limit that was never stored is whatever the C stack held.  Behind the *)
(* buffer it makes the stream refill from a NULL pointer.                  *)
EndMessageUninit ==
    /\ LegitAfterTag /\ Top.saved = Unset
    /\ faults' = faults \cup TagFaults \cup {"uninit"}
    /\ DecrementRecursionDepth
    /\ \/ /\ stack' = Stored
          /\ \E l \in AfterTag..Len(buf) : PopLimit(l)
          /\ UNCHANGED <<phase, ret>>
       \/ Die /\ UNCHANGED <<limit, legit>>

LeaveMessage ==
    /\ phase = "reading" /\ FieldNumber = 0 /\ Len(stack) > 1
    /\ pos' = AfterTag
    /\ EndMessageFails \/ EndMessageSucceeds \/ EndMessageUninit
    /\ UNCHANGED buf

(* The outermost RawDecode returns: its table is the result. *)
FinishMessage ==
    /\ phase = "reading" /\ FieldNumber = 0 /\ Len(stack) = 1
    /\ pos' = AfterTag
    /\ legit' = LegitAfterTag
    /\ faults' = faults \cup TagFaults
    /\ phase' = "done"
    /\ UNCHANGED <<buf, limit, depth, stack, ret>>

(* The table goes to Lua and the stream is destroyed. *)
DecodeReturn ==
    /\ phase = "done"
    /\ phase' = "idle" /\ ret' = "table"
    /\ buf' = <<>> /\ pos' = 0 /\ limit' = 0 /\ legit' = FALSE /\ depth' = 0
    /\ stack' = <<>> /\ faults' = {}

-----------------------------------------------------------------------------
FieldNames == UNION {DOMAIN Schema[d] : d \in DOMAIN Schema}

Iteration ==
    \/ SkipUnknown
    \/ \E f \in FieldNames : ReadValue(f) \/ EnterMessage(f)
    \/ LeaveMessage
    \/ FinishMessage
    \/ DecodeReturn

Next == (\E c \in Inputs : Decode(c)) \/ Iteration

(* A call that has begun keeps running. *)
Spec == Init /\ [][Next]_vars /\ WF_vars(Iteration)

-----------------------------------------------------------------------------
(* Type invariant: the stream's counters are numbers and the frames belong *)
(* to message types.                                                       *)
TypeOK ==
    /\ phase \in {"idle", "reading", "done", "dead"}
    /\ buf \in Seq(Byte)
    /\ pos \in Nat /\ limit \in Nat /\ depth \in Nat
    /\ legit \in BOOLEAN
    /\ phase \in {"reading", "done"} => Len(stack) > 0
    /\ \A j \in 1..Len(stack) :
         /\ stack[j].desc \in DOMAIN Schema
         /\ stack[j].via \in FieldNames \cup {NoField}
         /\ stack[j].saved \in Nat \cup {Unset}
    /\ faults \subseteq Faults
    /\ ret \in {"none", "nothing", "raise", "undefined", "table"}

(* What a nested message lets the decoder read never reaches beyond the    *)
(* message around it: the limit PushLimit set stays within the limits the  *)
(* calls of RawDecode have saved, which shrink from call to call, and all  *)
(* of them within the buffer, whatever the bytes are, until EndMessage     *)
(* pops a limit BeginMessage never stored.                                 *)
LimitsNest ==
    phase = "reading" =>
        /\ pos <= limit /\ limit <= Len(buf)
        /\ \A j \in 1..Len(stack) : stack[j].saved # Unset => stack[j].saved <= Len(buf)
        /\ "uninit" \notin faults =>
             \A j \in 1..Len(stack) : stack[j].saved # Unset =>
                 /\ limit <= stack[j].saved
                 /\ \A i \in 1..j : stack[i].saved # Unset => stack[j].saved <= stack[i].saved

(* The recursion depth protobuf counts is the number of open sub-messages, *)
(* as long as every BeginMessage read a length and every EndMessage was    *)
(* called at the end of its message.                                       *)
DepthMatchesFrames ==
    phase = "reading" /\ faults \cap {"head", "end"} = {} => depth = Len(stack) - 1

(* RawDecode goes on when BeginMessage reports the recursion limit, so     *)
(* only the input bounds how deep it recurses: an open sub-message has     *)
(* used up at least its tag and its length, or its tag alone once a length *)
(* could not be read.                                                      *)
NestingBoundedByInput ==
    phase = "reading" =>
        (Len(stack) - 1) * (IF "head" \in faults THEN 1 ELSE 2) <= pos

(* Every iteration of RawDecode's loop uses up input or returns from a     *)
(* sub-message, and none goes back, even where a read failed.              *)
IterationsProgress ==
    [][phase = "reading" /\ phase' = "reading" =>
          /\ pos' >= pos
          /\ pos' = pos => Len(stack') < Len(stack)]_vars

(* No input keeps luapb_decode in its loops for ever. *)
EveryDecodeEnds == phase = "reading" ~> phase \in {"idle", "dead"}

(* On any bytes the decoder is inside a properly nested message: its       *)
(* limits nest, its depth is counted and its recursion is paid for.        *)
NestingSound == TypeOK /\ LimitsNest /\ DepthMatchesFrames /\ NestingBoundedByInput
=============================================================================
