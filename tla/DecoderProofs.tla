--------------------------- MODULE DecoderProofs ----------------------------
(***************************************************************************)
(* What module Decoder promises for every schema, every input and every    *)
(* recursion limit.                                                        *)
(***************************************************************************)
EXTENDS Decoder, TLAPS

(* The stream is where CodedInputStream can be: within its limit, and the  *)
(* limit within the buffer.                                                *)
InBuffer ==
    /\ buf \in Seq(Byte)
    /\ pos \in Nat /\ limit \in Nat
    /\ pos <= limit /\ limit <= Len(buf)

-----------------------------------------------------------------------------
(* Reading a varint, the library's: it stays within the limit, a varint    *)
(* that is there is passed over, and its groups have seven bits.           *)

(* VarintBytes picks the length of a varint that is there. *)
LEMMA VarintBytesIs ==
    ASSUME NEW p, HasVarint(p)
    PROVE  VarintBytes(p) \in 1..kMaxVarintBytes /\ IsVarint(p, VarintBytes(p))
BY Zenon DEF HasVarint, VarintBytes

(* A varint read ends between where it began and the limit. *)
LEMMA AfterVarintBounds ==
    ASSUME limit \in Nat, NEW p \in Nat, p <= limit
    PROVE  /\ AfterVarint(p) \in Nat
           /\ p <= AfterVarint(p) /\ AfterVarint(p) <= limit
           /\ HasVarint(p) => p < AfterVarint(p)
<1>1. CASE HasVarint(p)
  <2>1. PICK n \in 1..kMaxVarintBytes : n = VarintBytes(p) /\ IsVarint(p, n)
    BY <1>1, VarintBytesIs
  <2>2. n \in Nat /\ 1 <= n /\ p + n <= limit
    BY <2>1 DEF IsVarint, kMaxVarintBytes
  <2> QED
    BY <1>1, <2>1, <2>2 DEF AfterVarint
<1>2. CASE ~HasVarint(p)
  BY <1>2 DEF AfterVarint, kMaxVarintBytes
<1> QED
  BY <1>1, <1>2

(* Each group of a varint in the buffer is a number of seven bits. *)
LEMMA GroupAtType ==
    ASSUME buf \in Seq(Byte), limit \in Nat, limit <= Len(buf),
           NEW p \in Nat, HasVarint(p), NEW k \in Nat, 1 <= k
    PROVE  GroupAt(p, k) \in 0..127
<1>1. PICK n \in 1..kMaxVarintBytes : n = VarintBytes(p) /\ IsVarint(p, n)
  BY VarintBytesIs
<1>2. n \in Nat /\ p + n <= limit
  BY <1>1 DEF IsVarint, kMaxVarintBytes
<1>3. CASE k <= n
  <2>1. p + k \in 1..Len(buf)
    BY <1>2, <1>3
  <2>2. buf[p + k] \in Byte
    BY <2>1
  <2>3. PICK x \in 0..255 : x = buf[p + k]
    BY <2>2 DEF Byte
  <2>4. x % 128 \in 0..127
    OBVIOUS
  <2>5. buf[p + k] % 128 \in 0..127
    BY <2>3, <2>4, Zenon
  <2> QED
    BY <1>1, <1>3, <2>5 DEF GroupAt
<1>4. CASE ~(k <= n)
  BY <1>1, <1>4 DEF GroupAt
<1> QED
  BY <1>3, <1>4

(* The numbers a varint stands for are integers, field numbers naturals. *)
LEMMA NumberTypes ==
    ASSUME buf \in Seq(Byte), limit \in Nat, limit <= Len(buf), NEW p \in Nat
    PROVE  Int32At(p) \in Int /\ FieldNumberAt(p) \in Nat
<1>1. CASE ~HasVarint(p)
  BY <1>1, SMT DEF Int32At, FieldNumberAt
<1>2. CASE HasVarint(p)
  <2>1. /\ GroupAt(p, 1) \in 0..127 /\ GroupAt(p, 2) \in 0..127
        /\ GroupAt(p, 3) \in 0..127 /\ GroupAt(p, 4) \in 0..127
        /\ GroupAt(p, 5) \in 0..127
    BY <1>2, GroupAtType
  <2>2. PICK a, b, c, d, e \in 0..127 :
            /\ a = GroupAt(p, 1) /\ b = GroupAt(p, 2) /\ c = GroupAt(p, 3)
            /\ d = GroupAt(p, 4) /\ e = GroupAt(p, 5)
    BY <2>1
  <2>3. Low28(p) \in Nat
    <3>1. a + 128 * b \in Nat /\ 16384 * c \in Nat
      OBVIOUS
    <3>2. 2097152 * d \in Nat
      BY SMT
    <3>3. a + 128 * b + 16384 * c + 2097152 * d \in Nat
      BY <3>1, <3>2, SMT
    <3>4. Low28(p) = a + 128 * b + 16384 * c + 2097152 * d
      BY <2>2, SMT DEF Low28
    <3> QED
      BY <3>3, <3>4, SMT
  <2>4. Top4(p) \in Nat
    BY <2>2 DEF Top4
  <2> QED
    BY <1>2, <2>3, <2>4, SMT DEF Int32At, FieldNumberAt
<1> QED
  BY <1>1, <1>2

(* A tag read stays within the limit, and uses up input when it finds one. *)
LEMMA TagBounds ==
    ASSUME InBuffer
    PROVE  /\ AfterTag \in Nat
           /\ pos <= AfterTag /\ AfterTag <= limit
           /\ FieldNumber # 0 => pos < AfterTag
<1>1. FieldNumber # 0 => HasVarint(pos)
  BY SMT DEF FieldNumber, FieldNumberAt
<1> QED
  BY <1>1, AfterVarintBounds DEF InBuffer, AfterTag

(* PBStream::ReadValue stays within the limit, whatever it reads. *)
LEMMA ValueBounds ==
    ASSUME InBuffer, NEW p \in Nat, p <= limit, NEW t
    PROVE  /\ AfterValue(t, p) \in Nat
           /\ p <= AfterValue(t, p) /\ AfterValue(t, p) <= limit
<1>1. /\ AfterVarint(p) \in Nat
      /\ p <= AfterVarint(p) /\ AfterVarint(p) <= limit
  BY AfterVarintBounds DEF InBuffer
<1>2. Int32At(p) \in Int
  BY NumberTypes DEF InBuffer
<1>3. StringLength(p) \in Nat /\ AfterVarint(p) + StringLength(p) <= limit
  BY <1>1, <1>2 DEF StringLength, SmallerOf, InBuffer
<1>4. SmallerOf(p + 4, limit) \in Nat /\ p <= SmallerOf(p + 4, limit) /\ SmallerOf(p + 4, limit) <= limit
  BY DEF SmallerOf, InBuffer
<1> QED
  BY <1>1, <1>3, <1>4 DEF AfterValue

(* PBStream::BeginMessage narrows the limit, if it changes it, and passes  *)
(* over the length it read.                                                *)
LEMMA BeginMessageBounds ==
    ASSUME InBuffer, NEW p \in Nat, p <= limit, BeginMessage(p)
    PROVE  /\ pos' \in Nat /\ limit' \in Nat
           /\ p <= pos' /\ pos' <= limit' /\ limit' <= limit
           /\ HasVarint(p) => p < pos'
<1>1. /\ AfterVarint(p) \in Nat
      /\ p <= AfterVarint(p) /\ AfterVarint(p) <= limit
      /\ HasVarint(p) => p < AfterVarint(p)
  BY AfterVarintBounds DEF InBuffer
<1>2. Int32At(p) \in Int
  BY NumberTypes DEF InBuffer
<1> QED
  BY <1>1, <1>2 DEF BeginMessage, SmallerOf, InBuffer

-----------------------------------------------------------------------------
(* The stack is a sequence; of what does not matter. *)
StackInv == \E S : stack \in Seq(S)

(* The first n frames are still there; only their tables may differ. *)
SameFrames(n) ==
    /\ StackInv'
    /\ Len(stack') = n
    /\ \A j \in 1..n : /\ stack'[j].desc = stack[j].desc
                       /\ stack'[j].via = stack[j].via
                       /\ stack'[j].saved = stack[j].saved

(* A step that leaves the stack alone keeps its frames. *)
LEMMA UnchangedFrames ==
    ASSUME StackInv, UNCHANGED stack
    PROVE  SameFrames(Len(stack))
<1>1. PICK S : stack \in Seq(S)
  BY DEF StackInv
<1>2. StackInv'
  BY <1>1, Zenon DEF StackInv
<1> QED
  BY <1>2 DEF SameFrames

(* A value stored in the table of the top frame keeps the frames. *)
LEMMA RefilledFrames ==
    ASSUME StackInv, Len(stack) > 0, NEW t,
           stack' = [stack EXCEPT ![Len(stack)] =
                        [desc |-> Top.desc, via |-> Top.via, saved |-> Top.saved, tab |-> t]]
    PROVE  SameFrames(Len(stack))
<1>1. PICK S : stack \in Seq(S)
  BY DEF StackInv
<1>2. PICK e : e = [desc |-> Top.desc, via |-> Top.via, saved |-> Top.saved, tab |-> t]
  OBVIOUS
<1>3. stack' = [stack EXCEPT ![Len(stack)] = e]
  BY <1>2
<1>4. stack' \in Seq(S \cup {e}) /\ Len(stack') = Len(stack)
  BY <1>1, <1>3
<1>5. \A j \in 1..Len(stack) : stack'[j] = IF j = Len(stack) THEN e ELSE stack[j]
  BY <1>1, <1>3
<1>6. e.desc = Top.desc /\ e.via = Top.via /\ e.saved = Top.saved
  BY <1>2
<1>7. Top = stack[Len(stack)]
  BY DEF Top, Last
<1>8. StackInv'
  BY <1>4, Zenon DEF StackInv
<1> QED
  BY <1>4, <1>5, <1>6, <1>7, <1>8 DEF SameFrames

(* The return from a sub-message removes the top frame and nothing else. *)
LEMMA StoredFrames ==
    ASSUME StackInv, Len(stack) > 1, stack' = Stored
    PROVE  SameFrames(Len(stack) - 1)
<1>1. PICK S : stack \in Seq(S)
  BY DEF StackInv
<1> DEFINE n == Len(stack) - 1
<1>2. n \in Nat /\ n > 0
  BY <1>1
<1>3. PICK below : below = stack[n]
  OBVIOUS
<1>4. PICK e : e = [desc |-> below.desc, via |-> below.via, saved |-> below.saved,
                    tab |-> FillValue(below.tab, Top.via, Schema[below.desc][Top.via], Top.tab)]
  OBVIOUS
<1>5. PICK front : front = Front(stack)
  OBVIOUS
<1>6. front \in Seq(S) /\ Len(front) = n /\ \A j \in 1..n : front[j] = stack[j]
  BY <1>1, <1>2, <1>5 DEF Front
<1>7. stack' = [front EXCEPT ![n] = e]
  BY <1>3, <1>4, <1>5, Zenon DEF Stored
<1>8. stack' \in Seq(S \cup {e}) /\ Len(stack') = n
  BY <1>2, <1>6, <1>7
<1>9. \A j \in 1..n : stack'[j] = IF j = n THEN e ELSE stack[j]
  BY <1>2, <1>6, <1>7
<1>10. e.desc = below.desc /\ e.via = below.via /\ e.saved = below.saved
  BY <1>4
<1>11. StackInv'
  BY <1>8, Zenon DEF StackInv
<1> QED
  BY <1>3, <1>8, <1>9, <1>10, <1>11 DEF SameFrames

(* BeginMessage's frame comes on top of the others. *)
LEMMA PushedFrame ==
    ASSUME StackInv, NEW e, stack' = Append(stack, e)
    PROVE  /\ StackInv' /\ Len(stack) \in Nat
           /\ Len(stack') = Len(stack) + 1
           /\ \A j \in 1..Len(stack) : stack'[j] = stack[j]
           /\ stack'[Len(stack) + 1] = e
<1>1. PICK S : stack \in Seq(S)
  BY DEF StackInv
<1>2. stack \in Seq(S \cup {e})
  BY <1>1
<1>3. stack' \in Seq(S \cup {e})
  BY <1>2
<1>4. StackInv'
  BY <1>3, Zenon DEF StackInv
<1> QED
  BY <1>2, <1>4

-----------------------------------------------------------------------------
(***************************************************************************)
(* The invariant the others rest on.  TypeOK is not inductive by itself:   *)
(* that reads stay in the buffer takes that the position, the limit and    *)
(* the limits to come back to are in it, and that frames come and go takes *)
(* that the stack is a sequence.                                           *)
(***************************************************************************)
BoundsInv ==
    phase = "reading" =>
        /\ pos <= limit /\ limit <= Len(buf)
        /\ \A j \in 1..Len(stack) : stack[j].saved # Unset => stack[j].saved <= Len(buf)

StreamInv == TypeOK /\ StackInv /\ BoundsInv

(* While a call reads, the stream is in its buffer and a frame on top. *)
LEMMA Reading ==
    ASSUME StreamInv, phase = "reading"
    PROVE  /\ InBuffer
           /\ Len(stack) \in Nat /\ Len(stack) > 0
           /\ Top.desc \in DOMAIN Schema
           /\ Top.saved \in Nat \cup {Unset}
           /\ Top.saved # Unset => Top.saved <= Len(buf)
           /\ depth \in Nat
<1>1. PICK S : stack \in Seq(S)
  BY DEF StreamInv, StackInv
<1>2. Len(stack) \in Nat /\ Len(stack) > 0
  BY <1>1 DEF StreamInv, TypeOK
<1>3. Top = stack[Len(stack)]
  BY DEF Top, Last
<1>4. Top.desc \in DOMAIN Schema /\ Top.saved \in Nat \cup {Unset}
  BY <1>2, <1>3 DEF StreamInv, TypeOK
<1>5. Top.saved # Unset => Top.saved <= Len(buf)
  BY <1>2, <1>3 DEF StreamInv, BoundsInv
<1> QED
  BY <1>2, <1>4, <1>5 DEF StreamInv, TypeOK, BoundsInv, InBuffer

(* The field found in a frame's message type. *)
LEMMA FieldFound ==
    ASSUME NEW d \in DOMAIN Schema, NEW f, NEW n, IsFieldOf(f, d, n)
    PROVE  /\ f \in FieldNames
           /\ Schema[d][f].type = "message" => Schema[d][f].msg \in DOMAIN Schema
<1>1. f \in DOMAIN Schema[d]
  BY DEF IsFieldOf
<1> QED
  BY <1>1, SchemaAssumption DEF FieldNames

ReadsForward ==
    /\ buf' = buf
    /\ pos' \in Nat /\ limit' \in Nat
    /\ pos <= pos' /\ pos' <= limit' /\ limit' <= Len(buf)
    /\ pos' = pos => LeaveMessage \/ FinishMessage

(* Every iteration reads forward, within a limit that stays in the buffer, *)
(* and uses up input unless it ends a message.                             *)
LEMMA IterationBounds ==
    ASSUME StreamInv, phase = "reading", Iteration
    PROVE  ReadsForward
<1>1. /\ InBuffer
      /\ Top.saved \in Nat \cup {Unset}
      /\ Top.saved # Unset => Top.saved <= Len(buf)
  BY Reading
<1>2. /\ AfterTag \in Nat
      /\ pos <= AfterTag /\ AfterTag <= limit
      /\ FieldNumber # 0 => pos < AfterTag
  BY <1>1, TagBounds
<1>3. CASE SkipUnknown
  BY <1>1, <1>2, <1>3 DEF SkipUnknown, InBuffer, ReadsForward
<1>4. ASSUME NEW f \in FieldNames, ReadValue(f) PROVE ReadsForward
  <2>1. /\ AfterValue(Schema[Top.desc][f].type, AfterTag) \in Nat
        /\ AfterTag <= AfterValue(Schema[Top.desc][f].type, AfterTag)
        /\ AfterValue(Schema[Top.desc][f].type, AfterTag) <= limit
    BY <1>1, <1>2, ValueBounds
  <2>2. /\ pos' = AfterValue(Schema[Top.desc][f].type, AfterTag)
        /\ FieldNumber # 0 /\ UNCHANGED <<buf, limit>>
    BY <1>4 DEF ReadValue
  <2> QED
    BY <1>1, <1>2, <2>1, <2>2 DEF InBuffer, ReadsForward
<1>5. ASSUME NEW f \in FieldNames, EnterMessage(f) PROVE ReadsForward
  <2>1. BeginMessage(AfterTag) /\ FieldNumber # 0 /\ UNCHANGED buf
    BY <1>5 DEF EnterMessage
  <2>2. /\ pos' \in Nat /\ limit' \in Nat
        /\ AfterTag <= pos' /\ pos' <= limit' /\ limit' <= limit
    BY <1>1, <1>2, <2>1, BeginMessageBounds
  <2> QED
    BY <1>1, <1>2, <2>1, <2>2 DEF InBuffer, ReadsForward
<1>6. CASE LeaveMessage
  <2>1. pos' = AfterTag /\ UNCHANGED buf
    BY <1>6 DEF LeaveMessage
  <2>2. CASE EndMessageFails
    BY <1>1, <1>2, <1>6, <2>1, <2>2 DEF EndMessageFails, InBuffer, ReadsForward
  <2>3. CASE EndMessageSucceeds
    BY <1>1, <1>2, <1>6, <2>1, <2>3 DEF EndMessageSucceeds, PopLimit, InBuffer, ReadsForward
  <2>4. CASE EndMessageUninit
    BY <1>1, <1>2, <1>6, <2>1, <2>4 DEF EndMessageUninit, PopLimit, InBuffer, ReadsForward
  <2> QED
    BY <1>6, <2>2, <2>3, <2>4 DEF LeaveMessage
<1>7. CASE FinishMessage
  BY <1>1, <1>2, <1>7 DEF FinishMessage, InBuffer, ReadsForward
<1>8. ~DecodeReturn
  BY DEF DecodeReturn
<1> QED
  BY <1>3, <1>4, <1>5, <1>6, <1>7, <1>8 DEF Iteration

(* What an iteration may do to the frames. *)
FramePushed ==
    /\ StackInv'
    /\ Len(stack') = Len(stack) + 1
    /\ \A j \in 1..Len(stack) : stack'[j] = stack[j]
    /\ stack'[Len(stack) + 1].desc \in DOMAIN Schema
    /\ stack'[Len(stack) + 1].via \in FieldNames
    /\ stack'[Len(stack) + 1].saved \in {limit, Unset}

FramePopped == Len(stack) > 1 /\ SameFrames(Len(stack) - 1)

(* BeginMessage saves the limit there was, or nothing. *)
LEMMA EnterMessageFrames ==
    ASSUME StreamInv, NEW f, EnterMessage(f)
    PROVE  FramePushed
<1>1. Top.desc \in DOMAIN Schema
  BY Reading DEF EnterMessage
<1>2. f \in FieldNames /\ Schema[Top.desc][f].msg \in DOMAIN Schema
  BY <1>1, FieldFound DEF EnterMessage
<1>3. PICK e : e = Frame(Schema[Top.desc][f].msg, f, SavedBy(AfterTag))
  OBVIOUS
<1>4. e.desc = Schema[Top.desc][f].msg /\ e.via = f /\ e.saved = SavedBy(AfterTag)
  BY <1>3 DEF Frame
<1>5. e.saved \in {limit, Unset}
  BY <1>4 DEF SavedBy
<1>6. stack' = Append(stack, e)
  BY <1>3 DEF EnterMessage
<1>7. StackInv
  BY DEF StreamInv
<1>8. /\ StackInv' /\ Len(stack) \in Nat
      /\ Len(stack') = Len(stack) + 1
      /\ \A j \in 1..Len(stack) : stack'[j] = stack[j]
      /\ stack'[Len(stack) + 1] = e
  BY <1>6, <1>7, PushedFrame
<1> QED
  BY <1>2, <1>4, <1>5, <1>8 DEF FramePushed

(* ReadValue leaves every frame in place. *)
LEMMA ReadValueFrames ==
    ASSUME StreamInv, NEW f, ReadValue(f)
    PROVE  SameFrames(Len(stack))
<1>1. StackInv /\ Len(stack) > 0
  BY Reading DEF StreamInv, ReadValue
<1>2. CASE UNCHANGED stack
  BY <1>1, <1>2, UnchangedFrames
<1>3. ASSUME NEW t, stack' = [stack EXCEPT ![Len(stack)] =
                 [desc |-> Top.desc, via |-> Top.via, saved |-> Top.saved, tab |-> t]]
      PROVE  SameFrames(Len(stack))
  BY <1>1, <1>3, RefilledFrames
<1> QED
  BY <1>2, <1>3 DEF ReadValue, Die

(* The return from a sub-message pops its frame, unless the process dies. *)
LEMMA LeaveMessageFrames ==
    ASSUME StreamInv, LeaveMessage
    PROVE  /\ FramePopped \/ SameFrames(Len(stack))
           /\ phase' = "reading" => FramePopped
           /\ phase' \in {"reading", "dead"}
<1>1. StackInv /\ Len(stack) > 1 /\ phase = "reading"
  BY DEF StreamInv, LeaveMessage
<1>2. \/ stack' = Stored /\ phase' = phase
      \/ UNCHANGED stack /\ phase' = "dead"
  BY DEF LeaveMessage, EndMessageFails, EndMessageSucceeds, EndMessageUninit, Die
<1>3. CASE stack' = Stored /\ phase' = phase
  BY <1>1, <1>3, StoredFrames DEF FramePopped
<1>4. CASE UNCHANGED stack /\ phase' = "dead"
  BY <1>1, <1>4, UnchangedFrames
<1> QED
  BY <1>2, <1>3, <1>4

TypesKept ==
    /\ phase' \in {"reading", "done", "dead"}
    /\ depth' \in Nat
    /\ legit' \in BOOLEAN
    /\ faults' \subseteq Faults
    /\ ret' \in {"none", "nothing", "raise", "undefined", "table"}

(* What else an iteration assigns stays in its type. *)
LEMMA IterationTypes ==
    ASSUME StreamInv, phase = "reading", Iteration
    PROVE  TypesKept
<1>1. /\ depth \in Nat /\ faults \subseteq Faults
      /\ ret \in {"none", "nothing", "raise", "undefined", "table"}
  BY DEF StreamInv, TypeOK
<1>2. legit \in BOOLEAN
  BY Zenon DEF StreamInv, TypeOK
<1>3. LegitAfterTag \in BOOLEAN
  BY Zenon DEF LegitAfterTag
<1>4. TagFaults \subseteq Faults
  BY DEF TagFaults, Faults
<1>5. CASE SkipUnknown
  <2>1. legit' \in BOOLEAN
    BY <1>2, <1>5, Zenon DEF SkipUnknown
  <2> QED
    BY <1>1, <1>5, <2>1 DEF SkipUnknown, Faults, TypesKept
<1>6. ASSUME NEW f \in FieldNames, ReadValue(f) PROVE TypesKept
  <2>1. legit' \in BOOLEAN
    BY <1>2, <1>6, Zenon DEF ReadValue
  <2>2. depth' = depth
    BY <1>6 DEF ReadValue
  <2>3. \/ phase' = "reading" /\ ret' = ret
        \/ phase' = "dead" /\ ret' = "undefined"
    BY <1>6 DEF ReadValue, Die
  <2>4. faults' = faults \/ faults' = faults \cup {"value"}
    BY <1>6 DEF ReadValue
  <2> QED
    BY <1>1, <2>1, <2>2, <2>3, <2>4 DEF Faults, TypesKept
<1>7. ASSUME NEW f \in FieldNames, EnterMessage(f) PROVE TypesKept
  <2>1. legit' \in BOOLEAN
    BY <1>2, <1>7, Zenon DEF EnterMessage
  <2>2. phase' = "reading" /\ ret' = ret /\ BeginMessage(AfterTag)
    BY <1>7 DEF EnterMessage
  <2> QED
    BY <1>1, <2>1, <2>2 DEF BeginMessage, Faults, TypesKept
<1>8. CASE LeaveMessage
  <2>1. phase' \in {"reading", "dead"}
    BY <1>8, LeaveMessageFrames
  <2>2. legit' \in BOOLEAN
    <3>1. legit' \in {legit, FALSE, LegitAfterTag}
      BY <1>8, Zenon DEF LeaveMessage, EndMessageFails, EndMessageSucceeds, EndMessageUninit, PopLimit
    <3> QED
      BY <1>2, <1>3, <3>1, Zenon
  <2>3. ret' \in {ret, "undefined"}
    BY <1>8 DEF LeaveMessage, EndMessageFails, EndMessageSucceeds, EndMessageUninit, Die
  <2>4. depth' \in Nat
    BY <1>1, <1>8 DEF LeaveMessage, EndMessageFails, EndMessageSucceeds, EndMessageUninit,
                      DecrementRecursionDepth
  <2>5. \/ faults' = faults \cup TagFaults \/ faults' = faults \cup TagFaults \cup {"end"}
        \/ faults' = faults \cup TagFaults \cup {"uninit"}
    BY <1>8 DEF LeaveMessage, EndMessageFails, EndMessageSucceeds, EndMessageUninit
  <2>6. faults' \subseteq Faults
    BY <1>1, <1>4, <2>5 DEF Faults
  <2> QED
    BY <1>1, <2>1, <2>2, <2>3, <2>4, <2>6 DEF TypesKept
<1>9. CASE FinishMessage
  <2>1. legit' \in BOOLEAN
    BY <1>3, <1>9, Zenon DEF FinishMessage
  <2> QED
    BY <1>1, <1>4, <1>9, <2>1 DEF FinishMessage, TypesKept
<1>10. ~DecodeReturn
  BY DEF DecodeReturn
<1> QED
  BY <1>5, <1>6, <1>7, <1>8, <1>9, <1>10 DEF Iteration

FramesKept ==
    /\ StackInv' /\ Len(stack') > 0
    /\ \A j \in 1..Len(stack') :
         /\ stack'[j].desc \in DOMAIN Schema
         /\ stack'[j].via \in FieldNames \cup {NoField}
         /\ stack'[j].saved \in Nat \cup {Unset}
         /\ stack'[j].saved # Unset => stack'[j].saved <= Len(buf)

(* Frames that come, stay or go leave frames of the same kind. *)
LEMMA FramesKeptBy ==
    ASSUME StreamInv, phase = "reading",
           SameFrames(Len(stack)) \/ FramePopped \/ FramePushed
    PROVE  FramesKept
<1>1. Len(stack) \in Nat /\ Len(stack) > 0 /\ limit \in Nat /\ limit <= Len(buf)
  BY Reading DEF InBuffer
<1>2. \A j \in 1..Len(stack) :
         /\ stack[j].desc \in DOMAIN Schema
         /\ stack[j].via \in FieldNames \cup {NoField}
         /\ stack[j].saved \in Nat \cup {Unset}
         /\ stack[j].saved # Unset => stack[j].saved <= Len(buf)
  BY DEF StreamInv, TypeOK, BoundsInv
<1>3. CASE SameFrames(Len(stack))
  BY <1>1, <1>2, <1>3 DEF SameFrames, FramesKept
<1>4. CASE FramePopped
  BY <1>1, <1>2, <1>4 DEF FramePopped, SameFrames, FramesKept
<1>5. CASE FramePushed
  <2>1. \A j \in 1..Len(stack') : j \in 1..Len(stack) \/ j = Len(stack) + 1
    BY <1>1, <1>5 DEF FramePushed
  <2> QED
    BY <1>1, <1>2, <1>5, <2>1 DEF FramePushed, FramesKept
<1> QED
  BY <1>3, <1>4, <1>5

(* The frames in an iteration. *)
LEMMA IterationFrames ==
    ASSUME StreamInv, phase = "reading", Iteration
    PROVE  SameFrames(Len(stack)) \/ FramePopped \/ FramePushed
<1>1. CASE UNCHANGED stack
  BY <1>1, UnchangedFrames DEF StreamInv
<1>2. ASSUME NEW f \in FieldNames, ReadValue(f) PROVE SameFrames(Len(stack))
  BY <1>2, ReadValueFrames
<1>3. ASSUME NEW f \in FieldNames, EnterMessage(f) PROVE FramePushed
  BY <1>3, EnterMessageFrames
<1>4. CASE LeaveMessage
  BY <1>4, LeaveMessageFrames
<1> QED
  BY <1>1, <1>2, <1>3, <1>4 DEF Iteration, SkipUnknown, FinishMessage, DecodeReturn

(* No stream is open in the initial state. *)
LEMMA StreamInvInit == Init => StreamInv
<1> SUFFICES ASSUME Init PROVE StreamInv
  OBVIOUS
<1>1. stack = <<>> /\ buf = <<>> /\ phase = "idle" /\ pos = 0 /\ limit = 0 /\ depth = 0
      /\ faults = {} /\ ret = "none"
  BY DEF Init
<1>2. legit \in BOOLEAN
  BY Zenon DEF Init
<1>3. <<>> \in Seq({})
  OBVIOUS
<1>4. StackInv
  BY <1>1, <1>3, Zenon DEF StackInv
<1> QED
  BY <1>1, <1>2, <1>4 DEF StreamInv, TypeOK, BoundsInv, Faults

(* luapb_decode opens a stream at the start of its buffer. *)
LEMMA DecodeStreamInv ==
    ASSUME StreamInv, NEW c \in Inputs, Decode(c)
    PROVE  StreamInv'
<1>1. CASE c.name \in Registered /\ c.data # BadArg
  <2>1. /\ phase' = "reading" /\ ret' = "none" /\ buf' = c.data /\ pos' = 0
        /\ limit' = Len(c.data) /\ depth' = 0
        /\ stack' = <<Frame(c.name, NoField, Unset)>> /\ faults' = {}
    BY <1>1 DEF Decode
  <2>2. legit' \in BOOLEAN
    BY <1>1, Zenon DEF Decode
  <2>3. c.data \in Seq(Byte) /\ c.name \in DOMAIN Schema
    BY <1>1, InputsAssumption, RegisteredAssumption
  <2>4. PICK e : e = Frame(c.name, NoField, Unset)
    OBVIOUS
  <2>5. e.desc = c.name /\ e.via = NoField /\ e.saved = Unset
    BY <2>4 DEF Frame
  <2>6. stack' = <<e>>
    BY <2>1, <2>4
  <2>7. stack' \in Seq({e}) /\ Len(stack') = 1 /\ stack'[1] = e
    BY <2>6
  <2>8. StackInv'
    BY <2>7, Zenon DEF StackInv
  <2>9. \A j \in 1..Len(stack') : stack'[j] = e
    BY <2>7
  <2>10. Len(c.data) \in Nat
    BY <2>3
  <2> QED
    BY <2>1, <2>2, <2>3, <2>5, <2>7, <2>8, <2>9, <2>10 DEF StreamInv, TypeOK, BoundsInv, Faults
<1>2. CASE ~(c.name \in Registered /\ c.data # BadArg)
  <2>1. /\ UNCHANGED <<phase, buf, pos, limit, depth, stack, faults>>
        /\ ret' \in {"raise", "nothing"}
    BY <1>2 DEF Decode
  <2>2. legit' \in BOOLEAN
    BY <1>2, Zenon DEF Decode, StreamInv, TypeOK
  <2>3. StackInv'
    BY <2>1, Zenon DEF StreamInv, StackInv
  <2> QED
    BY <2>1, <2>2, <2>3 DEF StreamInv, TypeOK, BoundsInv
<1> QED
  BY <1>1, <1>2

(* An iteration keeps the stream in its buffer. *)
LEMMA IterationStreamInv ==
    ASSUME StreamInv, phase = "reading", Iteration
    PROVE  StreamInv'
<1>1. ReadsForward
  BY IterationBounds
<1>2. TypesKept
  BY IterationTypes
<1>3. FramesKept
  BY IterationFrames, FramesKeptBy
<1>4. legit' \in BOOLEAN
  BY <1>2, Zenon DEF TypesKept
<1>5. buf' \in Seq(Byte) /\ buf' = buf
  BY <1>1 DEF ReadsForward, StreamInv, TypeOK
<1>6. TypeOK'
  BY <1>1, <1>2, <1>3, <1>4, <1>5 DEF ReadsForward, TypesKept, FramesKept, TypeOK
<1>7. BoundsInv'
  BY <1>1, <1>3, <1>5 DEF ReadsForward, FramesKept, BoundsInv
<1> QED
  BY <1>3, <1>6, <1>7 DEF StreamInv, FramesKept

(* The stream is destroyed. *)
LEMMA ReturnStreamInv ==
    ASSUME StreamInv, DecodeReturn
    PROVE  StreamInv'
<1>1. /\ stack' = <<>> /\ buf' = <<>> /\ phase' = "idle" /\ pos' = 0 /\ limit' = 0 /\ depth' = 0
      /\ faults' = {} /\ ret' = "table"
  BY DEF DecodeReturn
<1>2. legit' \in BOOLEAN
  BY Zenon DEF DecodeReturn
<1>3. <<>> \in Seq({})
  OBVIOUS
<1>4. StackInv'
  BY <1>1, <1>3, Zenon DEF StackInv
<1> QED
  BY <1>1, <1>2, <1>4 DEF StreamInv, TypeOK, BoundsInv, Faults

(* Iterations happen while reading; what else there is opens or closes. *)
LEMMA NextCases ==
    ASSUME Next
    PROVE  \/ \E c \in Inputs : Decode(c)
           \/ phase = "reading" /\ Iteration
           \/ DecodeReturn
BY DEF Next, Iteration, SkipUnknown, ReadValue, EnterMessage, LeaveMessage, FinishMessage

(* A step that changes nothing changes no invariant. *)
LEMMA StutterStreamInv ==
    ASSUME StreamInv, UNCHANGED vars
    PROVE  StreamInv'
<1>1. StackInv'
  BY Zenon DEF StreamInv, StackInv, vars
<1>2. legit' \in BOOLEAN
  BY Zenon DEF StreamInv, TypeOK, vars
<1> QED
  BY <1>1, <1>2 DEF StreamInv, TypeOK, BoundsInv, vars

(* StreamInv is inductive. *)
LEMMA StreamInvNext == StreamInv /\ [Next]_vars => StreamInv'
<1> SUFFICES ASSUME StreamInv, [Next]_vars PROVE StreamInv'
  OBVIOUS
<1>1. CASE UNCHANGED vars
  BY <1>1, StutterStreamInv
<1>2. CASE Next
  <2>1. ASSUME NEW c \in Inputs, Decode(c) PROVE StreamInv'
    BY <2>1, DecodeStreamInv
  <2>2. CASE phase = "reading" /\ Iteration
    BY <2>2, IterationStreamInv
  <2>3. CASE DecodeReturn
    BY <2>3, ReturnStreamInv
  <2> QED
    BY <1>2, <2>1, <2>2, <2>3, NextCases
<1> QED
  BY <1>1, <1>2

(***************************************************************************)
(* Whatever bytes luapb_decode is given, the frames of RawDecode belong to *)
(* message types and the stream's counters stay numbers.                   *)
(***************************************************************************)
THEOREM DecoderTypeCorrect == Spec => []TypeOK
<1>1. Spec => []StreamInv
  BY StreamInvInit, StreamInvNext, PTL DEF Spec
<1>2. StreamInv => TypeOK
  BY DEF StreamInv
<1> QED
  BY <1>1, <1>2, PTL

(***************************************************************************)
(* Every iteration of RawDecode's loop uses up input or returns from a     *)
(* sub-message, and the position never goes back.                          *)
(***************************************************************************)
THEOREM DecoderProgresses == Spec => IterationsProgress
<1> DEFINE Step == phase = "reading" /\ phase' = "reading" =>
                     /\ pos' >= pos
                     /\ pos' = pos => Len(stack') < Len(stack)
<1>1. Spec => []StreamInv
  BY StreamInvInit, StreamInvNext, PTL DEF Spec
<1>2. StreamInv /\ [Next]_vars => [Step]_vars
  <2> SUFFICES ASSUME StreamInv, Next, phase = "reading", phase' = "reading"
               PROVE  pos' >= pos /\ (pos' = pos => Len(stack') < Len(stack))
    OBVIOUS
  <2>1. Iteration
    BY NextCases DEF Decode, DecodeReturn
  <2>2. ReadsForward
    BY <2>1, IterationBounds
  <2>3. pos \in Nat /\ Len(stack) \in Nat
    BY Reading DEF InBuffer
  <2>4. CASE pos' = pos
    <3>1. LeaveMessage
      BY <2>2, <2>4 DEF ReadsForward, FinishMessage
    <3>2. FramePopped
      BY <3>1, LeaveMessageFrames
    <3> QED
      BY <2>3, <2>4, <3>2 DEF FramePopped, SameFrames
  <2> QED
    BY <2>2, <2>3, <2>4 DEF ReadsForward
<1> QED
  BY <1>1, <1>2, PTL DEF Spec, IterationsProgress

-----------------------------------------------------------------------------
(* The three kinds of iteration, by what they do to frames and stream. *)
Flat ==
    /\ SameFrames(Len(stack)) /\ UNCHANGED <<limit, depth>>
    /\ faults' \in {faults, faults \cup {"unknown"}, faults \cup {"value"}}

Deeper ==
    /\ FramePushed
    /\ limit' <= limit
    /\ \/ faults' = faults \cup {"head"} /\ pos' > pos
       \/ faults' \in {faults, faults \cup {"deep"}} /\ depth' = depth + 1 /\ pos' >= pos + 2

Shallower ==
    /\ FramePopped
    /\ faults \subseteq faults'
    /\ \/ "end" \in faults' /\ limit' = limit
       \/ /\ depth' = IF depth > 0 THEN depth - 1 ELSE depth
          /\ \/ Top.saved # Unset /\ limit' = Top.saved
             \/ "uninit" \in faults'
    /\ "head" \in faults' => "head" \in faults

(* Every iteration that goes on is of one of these kinds. *)
LEMMA IterationKinds ==
    ASSUME StreamInv, phase = "reading", phase' = "reading", Iteration
    PROVE  Flat \/ Deeper \/ Shallower
<1>1. InBuffer /\ StackInv /\ depth \in Nat
  BY Reading DEF StreamInv
<1>2. /\ AfterTag \in Nat
      /\ pos <= AfterTag /\ AfterTag <= limit
      /\ FieldNumber # 0 => pos < AfterTag
  BY <1>1, TagBounds
<1>3. CASE SkipUnknown
  <2>1. SameFrames(Len(stack))
    BY <1>1, <1>3, UnchangedFrames DEF SkipUnknown
  <2> QED
    BY <1>3, <2>1 DEF SkipUnknown, Flat
<1>4. ASSUME NEW f \in FieldNames, ReadValue(f) PROVE Flat
  <2>1. SameFrames(Len(stack))
    BY <1>4, ReadValueFrames
  <2>2. faults' \in {faults, faults \cup {"value"}}
    BY <1>4 DEF ReadValue
  <2> QED
    BY <1>4, <2>1, <2>2 DEF ReadValue, Flat
<1>5. ASSUME NEW f \in FieldNames, EnterMessage(f) PROVE Deeper
  <2>1. BeginMessage(AfterTag) /\ FieldNumber # 0
    BY <1>5 DEF EnterMessage
  <2>2. FramePushed
    BY <1>5, EnterMessageFrames
  <2>3. /\ pos' \in Nat /\ limit' \in Nat
        /\ AfterTag <= pos' /\ limit' <= limit
        /\ HasVarint(AfterTag) => AfterTag < pos'
    BY <1>1, <1>2, <2>1, BeginMessageBounds
  <2>4. pos \in Nat
    BY <1>1 DEF InBuffer
  <2>5. CASE HasVarint(AfterTag)
    <3>1. faults' \in {faults, faults \cup {"deep"}} /\ depth' = depth + 1
      BY <2>1, <2>5 DEF BeginMessage
    <3>2. pos' >= pos + 2
      BY <1>2, <2>1, <2>3, <2>4, <2>5
    <3> QED
      BY <2>2, <2>3, <3>1, <3>2 DEF Deeper
  <2>6. CASE ~HasVarint(AfterTag)
    <3>1. faults' = faults \cup {"head"}
      BY <2>1, <2>6 DEF BeginMessage
    <3>2. pos' > pos
      BY <1>2, <2>1, <2>3, <2>4
    <3> QED
      BY <2>2, <2>3, <3>1, <3>2 DEF Deeper
  <2> QED
    BY <2>5, <2>6
<1>6. CASE LeaveMessage
  <2>1. FramePopped
    BY <1>6, LeaveMessageFrames
  <2>2. TagFaults \subseteq {"tag"}
    BY DEF TagFaults
  <2>3. CASE EndMessageFails
    <3>1. faults' = faults \cup TagFaults \cup {"end"} /\ limit' = limit
      BY <2>3 DEF EndMessageFails
    <3> QED
      BY <2>1, <2>2, <3>1 DEF Shallower
  <2>4. CASE EndMessageSucceeds
    <3>1. /\ faults' = faults \cup TagFaults
          /\ Top.saved # Unset /\ limit' = Top.saved
          /\ depth' = IF depth > 0 THEN depth - 1 ELSE depth
      BY <2>4 DEF EndMessageSucceeds, PopLimit, DecrementRecursionDepth, Die
    <3> QED
      BY <2>1, <2>2, <3>1 DEF Shallower
  <2>5. CASE EndMessageUninit
    <3>1. /\ faults' = faults \cup TagFaults \cup {"uninit"}
          /\ depth' = IF depth > 0 THEN depth - 1 ELSE depth
      BY <2>5 DEF EndMessageUninit, DecrementRecursionDepth
    <3> QED
      BY <2>1, <2>2, <3>1 DEF Shallower
  <2> QED
    BY <1>6, <2>3, <2>4, <2>5 DEF LeaveMessage
<1>7. ~FinishMessage /\ ~DecodeReturn
  BY DEF FinishMessage, DecodeReturn
<1> QED
  BY <1>3, <1>4, <1>5, <1>6, <1>7 DEF Iteration

(* A step to "reading" is an iteration or opens a stream. *)
LEMMA StepsToReading ==
    ASSUME Next, phase' = "reading"
    PROVE  \/ phase = "reading" /\ Iteration
           \/ /\ pos' = 0 /\ limit' = Len(buf') /\ depth' = 0 /\ faults' = {}
              /\ \E n : stack' = <<Frame(n, NoField, Unset)>>
<1>1. ASSUME NEW c \in Inputs, Decode(c), phase' = "reading"
      PROVE  /\ pos' = 0 /\ limit' = Len(buf') /\ depth' = 0 /\ faults' = {}
             /\ stack' = <<Frame(c.name, NoField, Unset)>>
  BY <1>1 DEF Decode
<1>2. ~DecodeReturn
  BY DEF DecodeReturn
<1> QED
  BY <1>1, <1>2, NextCases

(* The stack of a stream just opened. *)
LEMMA OneFrame ==
    ASSUME NEW n, stack' = <<Frame(n, NoField, Unset)>>
    PROVE  Len(stack') = 1 /\ \A j \in 1..Len(stack') : stack'[j].saved = Unset
<1>1. PICK e : e = Frame(n, NoField, Unset)
  OBVIOUS
<1>2. e.saved = Unset
  BY <1>1 DEF Frame
<1>3. stack' = <<e>>
  BY <1>1
<1> QED
  BY <1>2, <1>3

(* The limits of nested messages, as LimitsNest has them. *)
LimitsInv ==
    phase = "reading" /\ "uninit" \notin faults =>
        \A j \in 1..Len(stack) : stack[j].saved # Unset =>
            /\ limit <= stack[j].saved
            /\ \A i \in 1..j : stack[i].saved # Unset => stack[j].saved <= stack[i].saved

(* Pushing a limit narrows it, popping one returns to the limit around it. *)
LEMMA LimitsInvIteration ==
    ASSUME StreamInv, LimitsInv, phase = "reading", phase' = "reading", Iteration
    PROVE  LimitsInv'
<1> SUFFICES ASSUME "uninit" \notin faults'
             PROVE  \A j \in 1..Len(stack') : stack'[j].saved # Unset =>
                      /\ limit' <= stack'[j].saved
                      /\ \A i \in 1..j : stack'[i].saved # Unset => stack'[j].saved <= stack'[i].saved
  BY DEF LimitsInv
<1>1. /\ Len(stack) \in Nat /\ Len(stack) > 0 /\ limit \in Nat
      /\ limit' \in Nat
  BY Reading, IterationBounds DEF InBuffer, ReadsForward
<1>2. \A j \in 1..Len(stack) : stack[j].saved \in Nat \cup {Unset}
  BY DEF StreamInv, TypeOK
<1>3. \A j \in 1..Len(stack') : stack'[j].saved \in Nat \cup {Unset}
  BY IterationStreamInv DEF StreamInv, TypeOK
<1>4. Top = stack[Len(stack)]
  BY DEF Top, Last
<1>5. CASE Flat
  <2>1. "uninit" \notin faults
    BY <1>5 DEF Flat
  <2> QED
    BY <1>1, <1>2, <1>5, <2>1 DEF Flat, SameFrames, LimitsInv
<1>6. CASE Deeper
  <2>1. "uninit" \notin faults
    BY <1>6 DEF Deeper
  <2>2. \A j \in 1..Len(stack') : j \in 1..Len(stack) \/ j = Len(stack) + 1
    BY <1>1, <1>6 DEF Deeper, FramePushed
  <2>3. \A j \in 1..Len(stack) :
           /\ stack'[j] = stack[j]
           /\ stack[j].saved # Unset => limit <= stack[j].saved
    BY <1>6, <2>1 DEF Deeper, FramePushed, LimitsInv
  <2>4. limit' <= limit /\ stack'[Len(stack) + 1].saved \in {limit, Unset}
    BY <1>6 DEF Deeper, FramePushed
  <2>5. ASSUME NEW j \in 1..Len(stack), stack'[j].saved # Unset
        PROVE  /\ limit' <= stack'[j].saved
               /\ \A i \in 1..j : stack'[i].saved # Unset => stack'[j].saved <= stack'[i].saved
    <3>1. stack'[j].saved = stack[j].saved /\ stack[j].saved \in Nat
      BY <1>2, <2>3, <2>5
    <3>2. limit <= stack[j].saved
      BY <2>3, <2>5, <3>1
    <3>3. \A i \in 1..j : i \in 1..Len(stack)
      BY <1>1
    <3>4. \A i \in 1..j : stack[i].saved # Unset => stack[j].saved <= stack[i].saved
      BY <2>1, <2>5, <3>1 DEF LimitsInv
    <3> QED
      BY <1>1, <2>3, <2>4, <3>1, <3>2, <3>3, <3>4
  <2>6. ASSUME NEW j, j = Len(stack) + 1, stack'[j].saved # Unset
        PROVE  /\ limit' <= stack'[j].saved
               /\ \A i \in 1..j : stack'[i].saved # Unset => stack'[j].saved <= stack'[i].saved
    <3>1. stack'[j].saved = limit
      BY <2>4, <2>6
    <3>2. \A i \in 1..j : i \in 1..Len(stack) \/ i = j
      BY <1>1, <2>6
    <3> QED
      BY <1>1, <2>3, <2>4, <3>1, <3>2
  <2> QED
    BY <2>2, <2>5, <2>6
<1>7. CASE Shallower
  <2>1. "uninit" \notin faults
    BY <1>7 DEF Shallower
  <2>2. Len(stack) > 1 /\ SameFrames(Len(stack) - 1)
    BY <1>7 DEF Shallower, FramePopped
  <2>3. limit' = limit \/ (Top.saved # Unset /\ limit' = Top.saved)
    BY <1>7 DEF Shallower
  <2>4. \A j \in 1..Len(stack') : j \in 1..Len(stack) /\ stack'[j].saved = stack[j].saved
    BY <1>1, <2>2 DEF SameFrames
  <2>5. \A j \in 1..Len(stack) : stack[j].saved # Unset =>
            /\ limit <= stack[j].saved
            /\ \A i \in 1..j : stack[i].saved # Unset => stack[j].saved <= stack[i].saved
    BY <2>1 DEF LimitsInv
  <2>6. \A j \in 1..Len(stack') : stack'[j].saved # Unset => limit' <= stack'[j].saved
    BY <1>1, <1>2, <1>4, <2>3, <2>4, <2>5
  <2>7. \A j \in 1..Len(stack') : \A i \in 1..j : i \in 1..Len(stack')
    BY <1>1, <2>2 DEF SameFrames
  <2>8. \A j \in 1..Len(stack') : stack'[j].saved # Unset =>
            \A i \in 1..j : stack'[i].saved # Unset => stack'[j].saved <= stack'[i].saved
    BY <2>4, <2>5, <2>7
  <2> QED
    BY <2>6, <2>8
<1> QED
  BY <1>5, <1>6, <1>7, IterationKinds

(* The depth goes up and down with the frames. *)
LEMMA DepthIteration ==
    ASSUME StreamInv, DepthMatchesFrames, phase = "reading", phase' = "reading", Iteration
    PROVE  DepthMatchesFrames'
<1> SUFFICES ASSUME faults' \cap {"head", "end"} = {} PROVE depth' = Len(stack') - 1
  BY DEF DepthMatchesFrames
<1>1. Len(stack) \in Nat /\ Len(stack) > 0 /\ depth \in Nat
  BY Reading
<1>2. faults \subseteq faults' => depth = Len(stack) - 1
  BY DEF DepthMatchesFrames
<1>3. CASE Flat
  BY <1>1, <1>2, <1>3 DEF Flat, SameFrames
<1>4. CASE Deeper
  <2>1. faults' # faults \cup {"head"}
    OBVIOUS
  <2>2. depth' = depth + 1 /\ faults \subseteq faults' /\ Len(stack') = Len(stack) + 1
    BY <1>4, <2>1 DEF Deeper, FramePushed
  <2> QED
    BY <1>1, <1>2, <2>2
<1>5. CASE Shallower
  BY <1>1, <1>2, <1>5 DEF Shallower, FramePopped, SameFrames
<1> QED
  BY <1>3, <1>4, <1>5, IterationKinds

(* A frame more takes a tag, and a length too while they can be read. *)
LEMMA NestingIteration ==
    ASSUME StreamInv, NestingBoundedByInput, phase = "reading", phase' = "reading", Iteration
    PROVE  NestingBoundedByInput'
<1>1. Len(stack) \in Nat /\ Len(stack) > 0 /\ pos \in Nat
  BY Reading DEF InBuffer
<1>2. pos' \in Nat /\ pos <= pos'
  BY IterationBounds DEF ReadsForward
<1>3. /\ Len(stack) - 1 <= pos
      /\ "head" \notin faults => (Len(stack) - 1) * 2 <= pos
  BY <1>1 DEF NestingBoundedByInput
<1> SUFFICES /\ Len(stack') \in Nat
             /\ Len(stack') - 1 <= pos'
             /\ "head" \notin faults' => (Len(stack') - 1) * 2 <= pos'
  BY DEF NestingBoundedByInput
<1>4. CASE Flat
  BY <1>1, <1>2, <1>3, <1>4 DEF Flat, SameFrames
<1>5. CASE Deeper
  BY <1>1, <1>2, <1>3, <1>5 DEF Deeper, FramePushed
<1>6. CASE Shallower
  BY <1>1, <1>2, <1>3, <1>6 DEF Shallower, FramePopped, SameFrames
<1> QED
  BY <1>4, <1>5, <1>6, IterationKinds

NestingInv == StreamInv /\ LimitsInv /\ DepthMatchesFrames /\ NestingBoundedByInput

(* NestingInv is inductive. *)
LEMMA NestingInvNext == NestingInv /\ [Next]_vars => NestingInv'
<1> SUFFICES ASSUME NestingInv, [Next]_vars PROVE NestingInv'
  OBVIOUS
<1>1. StreamInv'
  BY StreamInvNext DEF NestingInv
<1>2. CASE UNCHANGED vars
  BY <1>1, <1>2 DEF NestingInv, LimitsInv, DepthMatchesFrames, NestingBoundedByInput, vars
<1>3. CASE Next /\ phase' # "reading"
  BY <1>1, <1>3 DEF NestingInv, LimitsInv, DepthMatchesFrames, NestingBoundedByInput
<1>4. CASE Next /\ phase' = "reading" /\ phase = "reading" /\ Iteration
  BY <1>1, <1>4, LimitsInvIteration, DepthIteration, NestingIteration DEF NestingInv
<1>5. ASSUME NEW n, phase' = "reading", pos' = 0, depth' = 0, faults' = {},
             stack' = <<Frame(n, NoField, Unset)>>
      PROVE  NestingInv'
  <2>1. Len(stack') = 1 /\ \A j \in 1..Len(stack') : stack'[j].saved = Unset
    BY <1>5, OneFrame
  <2> QED
    BY <1>1, <1>5, <2>1 DEF NestingInv, LimitsInv, DepthMatchesFrames, NestingBoundedByInput
<1> QED
  BY <1>2, <1>3, <1>4, <1>5, StepsToReading

(* NestingInv holds of every behaviour. *)
LEMMA NestingInvAlways == Spec => []NestingInv
<1>1. Init => NestingInv
  BY StreamInvInit DEF Init, NestingInv, LimitsInv, DepthMatchesFrames, NestingBoundedByInput
<1> QED
  BY <1>1, NestingInvNext, PTL DEF Spec

(***************************************************************************)
(* Whatever the bytes are, RawDecode reads within the limit of the message *)
(* it is in, nested limits never reach beyond the enclosing ones until a   *)
(* limit that was never stored is popped, protobuf's recursion depth is    *)
(* the number of open sub-messages while lengths and ends are in order,    *)
(* and half the bytes read so far bound how deep RawDecode has recursed.   *)
(***************************************************************************)
THEOREM DecoderNesting == Spec => []NestingSound
<1>1. NestingInv => NestingSound
  BY DEF NestingInv, StreamInv, BoundsInv, LimitsInv, LimitsNest, NestingSound
<1> QED
  BY <1>1, NestingInvAlways, PTL

=============================================================================
