------------------------------ MODULE DescPool ------------------------------
(***************************************************************************)
(* The descriptor registry of luapb: src/src/DescPool.cpp and the file     *)
(* loading of src/src/Utility.cpp.                                         *)
(*                                                                         *)
(* The registry is three process-wide globals: the protobuf pool _pool and *)
(* two indexes into it, _msgMap and _enumMap (_filedescMap is declared and *)
(* never used).  luapb_register reaches InitDescriptorPool, every encode   *)
(* and decode reaches FindMessage.  All of it runs on the thread of the    *)
(* Lua state and never yields, so a call is one action.                    *)
(*                                                                         *)
(* A descriptor is <<address of the pool that owns it, full name>>: a map  *)
(* entry whose pool is not the live one points into freed memory.          *)
(***************************************************************************)
EXTENDS Naturals, Sequences

CONSTANTS
    Protos,    \* FileDescriptorProtos: [file, deps, messages, nested, enums, valid]
    Contents,  \* what a path can hold on disk: [kind, files], see LoadDescriptorFile
    Addrs,     \* addresses the allocator may give a pool, free to be given again
    nullptr

ASSUME ProtosAssumption ==
    \A p \in Protos :
        /\ p.valid \in BOOLEAN
        /\ DOMAIN p = {"file", "deps", "messages", "nested", "enums", "valid"}

ASSUME ContentsAssumption ==
    \A c \in Contents : c.kind \in {"missing", "malformed", "set"} /\ c.files \in Seq(Protos)

ASSUME AddrsAssumption == nullptr \notin Addrs

VARIABLES
    pool,      \* _pool: nullptr or the address of the live pool
    files,     \* the files built into the live pool (state of the protobuf library)
    msgMap,    \* _msgMap: full name -> descriptor
    enumMap,   \* _enumMap
    opened,    \* the content the live pool was opened on (history)
    ret        \* what the last luapb_register returned, NoCall before the first

vars == <<pool, files, msgMap, enumMap, opened, ret>>

NoCall == "nocall"
NoContent == [kind |-> "missing", files |-> <<>>]
EmptyMap == [n \in {} |-> <<nullptr, n>>]

(* Top-level types only: message_type(i) and enum_type(i) of a file do not *)
(* reach the types nested in its messages.                                 *)
MessageTypes(fs) == UNION {p.messages : p \in fs}
EnumTypes(fs) == UNION {p.enums : p \in fs}

Symbols(p) == p.messages \cup p.nested \cup p.enums

-----------------------------------------------------------------------------
(***************************************************************************)
(* The protobuf library.  DescriptorPool::BuildFileCollectingErrors        *)
(* returns NULL when the proto is invalid, when a file it imports is not   *)
(* in the pool yet, or when its name or one of its symbols is taken; a     *)
(* file equal to one already built is returned as it is.                   *)
(***************************************************************************)
BuildFile(p, built) ==
    \/ p \in built
    \/ /\ p.valid
       /\ p.deps \subseteq {q.file : q \in built}
       /\ \A q \in built : p.file # q.file /\ Symbols(p) \cap Symbols(q) = {}

(* LoadFileContent returns NULL for a file fopen cannot open and leaves    *)
(* size at 0; LoadDescriptorFile passes both on to ParseFromArray, which   *)
(* accepts zero bytes as an empty set.  Only bytes that do not parse fail. *)
LoadDescriptorFile(c) == c.kind # "malformed"

FileDescriptorSet(c) == IF c.kind = "set" THEN c.files ELSE <<>>

(* How many files the registration loop builds before it ends: all of      *)
(* them, or the ones in front of the first that BuildFile rejects.         *)
IsBuilt(fs, k) ==
    /\ \A i \in 1..k : BuildFile(fs[i], {fs[j] : j \in 1..(i - 1)})
    /\ k < Len(fs) => ~BuildFile(fs[k + 1], {fs[j] : j \in 1..k})

(* map[full_name] = descriptor for every name in ns, old entries replaced. *)
Enter_NullEntries(map, ns, g) ==
    [n \in ns \cup DOMAIN map |-> IF n \in ns THEN <<nullptr, n>> ELSE map[n]]

Enter(map, ns, g) ==
    [n \in ns \cup DOMAIN map |-> IF n \in ns THEN <<g, n>> ELSE map[n]]

(* What luapb_register returns after building the first k files of fs.     *)
Result_IgnoresBuildFailure(k, fs) == "true"

Result(k, fs) == IF k = Len(fs) THEN "true" ELSE "false"

-----------------------------------------------------------------------------
FindMessage(name) == IF name \in DOMAIN msgMap THEN msgMap[name] ELSE <<nullptr, name>>

FindEnum(name) == IF name \in DOMAIN enumMap THEN enumMap[name] ELSE <<nullptr, name>>

Init ==
    /\ pool = nullptr
    /\ files = {}
    /\ msgMap = EmptyMap
    /\ enumMap = EmptyMap
    /\ opened = NoContent
    /\ ret = NoCall


(* The first test of InitDescriptorPool: one pool at a time. *)
CanOpen == pool = nullptr

(* luapb_register while a pool exists: nothing is even read. *)
InitDescriptorPoolAgain ==
    /\ ~CanOpen
    /\ ret' = "false"
    /\ UNCHANGED <<pool, files, msgMap, enumMap, opened>>

(* luapb_register on a content: the pool is created before the file is     *)
(* read and stays whatever happens next; the types of every file built     *)
(* before a failure stay registered.                                       *)
InitDescriptorPool(c, a) ==
    /\ CanOpen
    /\ pool' = a
    /\ opened' = c
    /\ \/ /\ ~LoadDescriptorFile(c)
          /\ ret' = "false"
          /\ UNCHANGED <<files, msgMap, enumMap>>
       \/ /\ LoadDescriptorFile(c)
          /\ \E k \in 0..Len(FileDescriptorSet(c)) :
                LET fs == FileDescriptorSet(c)
                    ok == {fs[i] : i \in 1..k}
                IN  /\ IsBuilt(fs, k)
                    /\ files' = ok
                    /\ msgMap' = Enter(msgMap, MessageTypes(ok), a)
                    /\ enumMap' = Enter(enumMap, EnumTypes(ok), a)
                    /\ ret' = Result(k, fs)

(* ReleaseDescriptorPool, called by the C++ host. *)
ReleaseDescriptorPool_KeepsEnums ==
    /\ pool # nullptr
    /\ msgMap' = EmptyMap
    /\ pool' = nullptr
    /\ files' = {}
    /\ opened' = NoContent
    /\ UNCHANGED <<ret, enumMap>>

ReleaseDescriptorPool ==
    /\ pool # nullptr
    /\ msgMap' = EmptyMap
    /\ enumMap' = EmptyMap
    /\ pool' = nullptr
    /\ files' = {}
    /\ opened' = NoContent
    /\ UNCHANGED ret

Next ==
    \/ InitDescriptorPoolAgain
    \/ \E c \in Contents, a \in Addrs : InitDescriptorPool(c, a)
    \/ ReleaseDescriptorPool

Spec == Init /\ [][Next]_vars

-----------------------------------------------------------------------------
TypeOK ==
    /\ pool \in Addrs \cup {nullptr}
    /\ files \subseteq Protos
    /\ \A n \in DOMAIN msgMap : msgMap[n] \in Addrs \X {n}
    /\ \A n \in DOMAIN enumMap : enumMap[n] \in Addrs \X {n}
    /\ opened \in Contents \cup {NoContent}
    /\ ret \in {NoCall, "true", "false"}

(* _msgMap and _enumMap hold exactly the top-level types of the files that *)
(* were built into the live pool, and every descriptor they hold belongs   *)
(* to that pool: after a registration that fails halfway, after a release  *)
(* and after registering anew, no entry is missing, stale or dangling.     *)
MapsMirrorPool ==
    /\ msgMap = [n \in MessageTypes(files) |-> <<pool, n>>]
    /\ enumMap = [n \in EnumTypes(files) |-> <<pool, n>>]

(* While the pool whose registration returned true is open, FindMessage    *)
(* and FindEnum answer every top-level type of the set it was opened on    *)
(* (InitDescriptorPool returns true only from the end of its loop).        *)
RegisteredIsComplete ==
    ret = "true" /\ pool # nullptr =>
        \A p \in {FileDescriptorSet(opened)[i] : i \in DOMAIN FileDescriptorSet(opened)} :
            /\ \A n \in p.messages : FindMessage(n) = <<pool, n>>
            /\ \A n \in p.enums : FindEnum(n) = <<pool, n>>


=============================================================================
