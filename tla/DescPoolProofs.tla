--------------------------- MODULE DescPoolProofs ---------------------------
(***************************************************************************)
(* Proofs about the descriptor registry, for every set of protos, every    *)
(* content of every path and every choice of pool addresses.               *)
(***************************************************************************)
EXTENDS DescPool, TLAPS

(* The inductive invariant behind MapsMirrorPool: without a pool there is  *)
(* nothing built, so a registration always starts from empty maps.         *)
PoolInv ==
    /\ MapsMirrorPool
    /\ pool = nullptr => files = {}

(* An empty pool is indexed by empty maps, whatever its address. *)
LEMMA EmptyIndex ==
    ASSUME NEW g
    PROVE  /\ [n \in MessageTypes({}) |-> <<g, n>>] = EmptyMap
           /\ [n \in EnumTypes({}) |-> <<g, n>>] = EmptyMap
<1>1. MessageTypes({}) = {} /\ EnumTypes({}) = {}
  BY DEF MessageTypes, EnumTypes
<1> QED
  BY <1>1 DEF EmptyMap

(* The initial state, before RegisterFile has run, has no pool and empty maps. *)
LEMMA PoolInvInit == Init => PoolInv
BY EmptyIndex DEF Init, PoolInv, MapsMirrorPool

(* Entering names into an empty map yields exactly the index of those names. *)
LEMMA EnterEmpty ==
    ASSUME NEW ns, NEW g
    PROVE  Enter(EmptyMap, ns, g) = [n \in ns |-> <<g, n>>]
BY DEF Enter, EmptyMap

(* Every operation on the descriptor pool preserves the inductive invariant. *)
LEMMA PoolInvNext == PoolInv /\ [Next]_vars => PoolInv'
<1> SUFFICES ASSUME PoolInv, [Next]_vars PROVE PoolInv'
  OBVIOUS
<1> USE DEF PoolInv, MapsMirrorPool
<1>1. CASE InitDescriptorPoolAgain
  BY <1>1 DEF InitDescriptorPoolAgain
<1>2. ASSUME NEW c \in Contents, NEW a \in Addrs, InitDescriptorPool(c, a)
      PROVE  PoolInv'
  <2>1. pool = nullptr /\ files = {} /\ pool' = a /\ a # nullptr
    BY <1>2, AddrsAssumption DEF InitDescriptorPool, CanOpen
  <2>2. msgMap = EmptyMap /\ enumMap = EmptyMap
    BY <2>1, EmptyIndex
  <2>3. CASE ~LoadDescriptorFile(c)
    BY <1>2, <2>1, <2>2, <2>3, EmptyIndex DEF InitDescriptorPool
  <2>4. CASE LoadDescriptorFile(c)
    <3> DEFINE ok(k) == {FileDescriptorSet(c)[i] : i \in 1..k}
    <3>1. PICK k \in 0..Len(FileDescriptorSet(c)) :
             /\ files' = ok(k)
             /\ msgMap' = Enter(msgMap, MessageTypes(ok(k)), a)
             /\ enumMap' = Enter(enumMap, EnumTypes(ok(k)), a)
      BY <1>2, <2>4 DEF InitDescriptorPool
    <3> HIDE DEF ok
    <3>2. /\ Enter(EmptyMap, MessageTypes(ok(k)), a) = [n \in MessageTypes(ok(k)) |-> <<a, n>>]
          /\ Enter(EmptyMap, EnumTypes(ok(k)), a) = [n \in EnumTypes(ok(k)) |-> <<a, n>>]
      BY EnterEmpty
    <3>3. /\ msgMap' = [n \in MessageTypes(files') |-> <<a, n>>]
          /\ enumMap' = [n \in EnumTypes(files') |-> <<a, n>>]
      BY ONLY <3>1, <3>2, <2>2
    <3> QED
      BY <3>2, <3>3, <2>1
  <2> QED
    BY <2>3, <2>4
<1>3. CASE ReleaseDescriptorPool
  BY <1>3, EmptyIndex DEF ReleaseDescriptorPool
<1>4. CASE UNCHANGED vars
  BY <1>4 DEF vars
<1> QED
  BY <1>1, <1>2, <1>3, <1>4 DEF Next

(* In every behaviour the message and enum maps are exactly the index of   *)
(* the live pool: nothing stale, nothing dangling, nothing missing.        *)
THEOREM MapsAlwaysMirrorPool == Spec => []MapsMirrorPool
<1>1. PoolInv => MapsMirrorPool
  BY DEF PoolInv
<1> QED
  BY PoolInvInit, PoolInvNext, <1>1, PTL DEF Spec

-----------------------------------------------------------------------------
(* The files of a content are a sequence of protos. *)
LEMMA FilesAreProtos ==
    ASSUME NEW c \in Contents
    PROVE  FileDescriptorSet(c) \in Seq(Protos)
BY ContentsAssumption DEF FileDescriptorSet

(* What InitDescriptorPool leaves when the set was read: a pool with the first files. *)
LEMMA Registration ==
    ASSUME NEW c \in Contents, NEW a \in Addrs, InitDescriptorPool(c, a)
    PROVE  /\ pool' = a /\ opened' = c
           /\ ret' \in {"true", "false"}
           /\ \/ files' = files
              \/ \E k \in 0..Len(FileDescriptorSet(c)) :
                    files' = {FileDescriptorSet(c)[i] : i \in 1..k}
           /\ ret' = "true" =>
                files' = {FileDescriptorSet(c)[i] : i \in DOMAIN FileDescriptorSet(c)}
<1>1. CASE ~LoadDescriptorFile(c)
  BY <1>1 DEF InitDescriptorPool
<1>2. CASE LoadDescriptorFile(c)
  <2> DEFINE fs == FileDescriptorSet(c)
             built(k) == {fs[i] : i \in 1..k}
  <2>1. PICK k \in 0..Len(fs) : files' = built(k) /\ ret' = Result(k, fs)
    BY <1>2 DEF InitDescriptorPool
  <2>2. DOMAIN fs = 1..Len(fs)
    BY FilesAreProtos
  <2>3. ret' = "true" => k = Len(fs)
    BY <2>1 DEF Result
  <2>4. pool' = a /\ opened' = c
    BY DEF InitDescriptorPool
  <2>5. ret' \in {"true", "false"}
    BY <2>1 DEF Result
  <2>6. \E j \in 0..Len(fs) : files' = built(j)
    BY <2>1
  <2>7. ret' = "true" => files' = {fs[i] : i \in DOMAIN fs}
    BY <2>1, <2>2, <2>3
  <2> QED
    BY <2>4, <2>5, <2>6, <2>7
<1> QED
  BY <1>1, <1>2

(* What RegisteredIsComplete and TypeOK need besides PoolInv: a pool whose registration
   returned true was built from every file of its content, not from some of them. *)
AllBuilt ==
    ret = "true" /\ pool # nullptr =>
        files = {FileDescriptorSet(opened)[i] : i \in DOMAIN FileDescriptorSet(opened)}

RegistryInv ==
    /\ PoolInv
    /\ AllBuilt
    /\ pool \in Addrs \cup {nullptr}
    /\ files \subseteq Protos
    /\ opened \in Contents \cup {NoContent}
    /\ ret \in {NoCall, "true", "false"}

(* Before the first registration there is no pool. *)
LEMMA RegistryInvInit == Init => RegistryInv
BY PoolInvInit DEF Init, RegistryInv, AllBuilt, NoCall

(* A registration that fails halfway, one on a pool that exists and a release keep it. *)
LEMMA RegistryInvNext == RegistryInv /\ [Next]_vars => RegistryInv'
<1> SUFFICES ASSUME RegistryInv, [Next]_vars PROVE RegistryInv'
  OBVIOUS
<1>1. PoolInv'
  BY PoolInvNext DEF RegistryInv
<1>2. CASE InitDescriptorPoolAgain
  BY <1>1, <1>2 DEF InitDescriptorPoolAgain, RegistryInv, AllBuilt
<1>3. ASSUME NEW c \in Contents, NEW a \in Addrs, InitDescriptorPool(c, a)
      PROVE  RegistryInv'
  <2>1. /\ pool' = a /\ opened' = c
        /\ ret' \in {"true", "false"}
        /\ ret' = "true" =>
             files' = {FileDescriptorSet(c)[i] : i \in DOMAIN FileDescriptorSet(c)}
    BY <1>3, Registration
  <2>2. files' \subseteq Protos
    <3>1. CASE files' = files
      BY <3>1 DEF RegistryInv
    <3>2. ASSUME NEW k \in 0..Len(FileDescriptorSet(c)),
                 files' = {FileDescriptorSet(c)[i] : i \in 1..k}
          PROVE  files' \subseteq Protos
      BY <3>2, FilesAreProtos
    <3> QED
      BY <1>3, <3>1, <3>2, Registration
  <2>3. AllBuilt'
    BY <2>1 DEF AllBuilt
  <2> QED
    BY <1>1, <2>1, <2>2, <2>3 DEF RegistryInv
<1>4. CASE ReleaseDescriptorPool
  BY <1>1, <1>4 DEF ReleaseDescriptorPool, RegistryInv, AllBuilt
<1>5. CASE UNCHANGED vars
  BY <1>1, <1>5 DEF vars, RegistryInv, AllBuilt
<1> QED
  BY <1>2, <1>3, <1>4, <1>5 DEF Next

(* The maps hold descriptors of an existing pool under their own names; opened, ret and
   files are what the registration left. *)
THEOREM RegistryTypeCorrect == Spec => []TypeOK
<1>1. RegistryInv => TypeOK
  <2> SUFFICES ASSUME RegistryInv PROVE TypeOK
    OBVIOUS
  <2>1. files # {} => pool \in Addrs
    BY DEF RegistryInv, PoolInv
  <2>2. \A n \in DOMAIN msgMap : msgMap[n] \in Addrs \X {n}
    BY <2>1 DEF RegistryInv, PoolInv, MapsMirrorPool, MessageTypes
  <2>3. \A n \in DOMAIN enumMap : enumMap[n] \in Addrs \X {n}
    BY <2>1 DEF RegistryInv, PoolInv, MapsMirrorPool, EnumTypes
  <2> QED
    BY <2>2, <2>3 DEF RegistryInv, TypeOK
<1> QED
  BY RegistryInvInit, RegistryInvNext, <1>1, PTL DEF Spec

(* When luapb_register has returned true, FindMessage and FindEnum answer every top-level
   type of the set it read, until the pool is released. *)
THEOREM RegisteredAlwaysComplete == Spec => []RegisteredIsComplete
<1>1. RegistryInv => RegisteredIsComplete
  <2> DEFINE fs == {FileDescriptorSet(opened)[i] : i \in DOMAIN FileDescriptorSet(opened)}
  <2> SUFFICES ASSUME RegistryInv, ret = "true" /\ pool # nullptr, NEW f \in fs
               PROVE  /\ \A n \in f.messages : FindMessage(n) = <<pool, n>>
                      /\ \A n \in f.enums : FindEnum(n) = <<pool, n>>
    BY DEF RegisteredIsComplete
  <2>1. f \in files
    BY DEF RegistryInv, AllBuilt
  <2>2. f.messages \subseteq MessageTypes(files) /\ f.enums \subseteq EnumTypes(files)
    BY <2>1 DEF MessageTypes, EnumTypes
  <2> QED
    BY <2>2 DEF RegistryInv, PoolInv, MapsMirrorPool, FindMessage, FindEnum
<1> QED
  BY RegistryInvInit, RegistryInvNext, <1>1, PTL DEF Spec
=============================================================================
