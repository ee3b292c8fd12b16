---------------------------- MODULE LuaIoProofs ----------------------------
(***************************************************************************)
(* Proofs about the io library, for every set of handles and FILEs that    *)
(* satisfies StdAssumption.                                                *)
(***************************************************************************)
EXTENDS LuaIo, FiniteSetTheorems, TLAPS

FILE == Streams \cup Std

(* What keeps a FILE from being lost, closed twice or closed the wrong way: the open ones
   have one handle each, which knows how its FILE was opened, and a handle points to a
   FILE only while that is open. *)
OwnersInv ==
    /\ p \in [AllHandles -> FILE \cup {NULL, Unmade}]
    /\ cls \in [AllHandles -> {"io_noclose", "io_fclose", "io_pclose"}]
    /\ FILEs \in [FILE -> {"std", "closed", "fopen", "popen", "tmpfile"}]
    /\ \A f \in Std : FILEs[f] = "std" /\ p[f] = f /\ cls[f] = "io_noclose"
    /\ \A f \in Streams : FILEs[f] # "std"
    /\ \A h \in AllHandles : p[h] \in FILE => FILEs[p[h]] # "closed"
    /\ \A g, h \in AllHandles : p[g] \in FILE /\ p[g] = p[h] => g = h
    /\ \A f \in FILE : FILEs[f] # "closed" => \E h \in AllHandles : p[h] = f
    /\ \A h \in Handles : p[h] \in FILE => Closer[FILEs[p[h]]] = cls[h]
    /\ fault = FALSE

(* What a script, the defaults and the iterators refer to exists. *)
ReferrersInv ==
    /\ held \subseteq AllHandles
    /\ default \in [{"input", "output"} -> AllHandles]
    /\ iterators \subseteq Iterators
    /\ \A h \in Reachable : Made(h)

IoInv == StdAssumption /\ OwnersInv /\ ReferrersInv

-----------------------------------------------------------------------------
(* fopen takes a FILE that no handle has. *)
LEMMA OpenedKeepsOwners ==
    ASSUME StdAssumption, OwnersInv, NEW h \in FreshHandles, NEW f \in ClosedStreams,
           NEW how \in {"fopen", "popen", "tmpfile"}, Opened(h, f, how), fault' = fault
    PROVE  OwnersInv'
<1> USE DEF OwnersInv, AllHandles, FILE
<1>1. /\ h \in Handles /\ h \notin Std /\ p[h] = Unmade /\ Unmade \notin FILE /\ NULL \notin FILE
      /\ f \in Streams /\ f \notin Std /\ FILEs[f] = "closed"
  BY DEF FreshHandles, ClosedStreams, Made, StdAssumption, NULL, Unmade
<1>2. /\ p' \in [AllHandles -> FILE \cup {NULL, Unmade}]
      /\ \A g \in AllHandles : p'[g] = IF g = h THEN f ELSE p[g]
  BY <1>1 DEF Opened
<1>3. /\ cls' \in [AllHandles -> {"io_noclose", "io_fclose", "io_pclose"}]
      /\ \A g \in AllHandles : cls'[g] = IF g = h THEN newfile(how) ELSE cls[g]
  BY <1>1 DEF Opened, newfile
<1>4. /\ FILEs' \in [FILE -> {"std", "closed", "fopen", "popen", "tmpfile"}]
      /\ \A e \in FILE : FILEs'[e] = IF e = f THEN how ELSE FILEs[e]
  BY <1>1 DEF Opened
<1>5. Closer[how] = newfile(how) /\ how \notin {"std", "closed"}
  BY DEF Closer, newfile
<1>6. \A g \in AllHandles : p[g] # f
  BY <1>1
<1>7. \A e \in Std : FILEs'[e] = "std" /\ p'[e] = e /\ cls'[e] = "io_noclose"
  BY <1>1, <1>2, <1>3, <1>4
<1>8. \A e \in Streams : FILEs'[e] # "std"
  BY <1>4, <1>5
<1>9. \A g \in AllHandles : p'[g] \in FILE => FILEs'[p'[g]] # "closed"
  BY <1>1, <1>2, <1>4, <1>5, <1>6
<1>10. \A g, k \in AllHandles : p'[g] \in FILE /\ p'[g] = p'[k] => g = k
  BY <1>2, <1>6
<1>11. ASSUME NEW e \in FILE, FILEs'[e] # "closed" PROVE \E g \in AllHandles : p'[g] = e
  <2>1. CASE e = f
    BY <2>1, <1>1, <1>2
  <2>2. CASE e # f
    <3>1. PICK g \in AllHandles : p[g] = e
      BY <2>2, <1>4, <1>11
    <3>2. g # h
      BY <3>1, <1>1
    <3> QED
      BY <3>1, <3>2, <1>2
  <2> QED
    BY <2>1, <2>2
<1>12. \A g \in Handles : p'[g] \in FILE => Closer[FILEs'[p'[g]]] = cls'[g]
  BY <1>1, <1>2, <1>3, <1>4, <1>5, <1>6
<1> QED
  BY <1>2, <1>3, <1>4, <1>7, <1>8, <1>9, <1>10, <1>11, <1>12

(* A handle that has no FILE stays without one, or becomes one. *)
LEMMA NoFileKeepsOwners ==
    ASSUME StdAssumption, OwnersInv, NEW h \in Handles, p[h] \notin FILE, NEW v \in {NULL, Unmade},
           p' = [p EXCEPT ![h] = v], NEW c \in {"io_fclose", "io_pclose"},
           cls' \in {cls, [cls EXCEPT ![h] = c]}, UNCHANGED <<FILEs, fault>>
    PROVE  OwnersInv'
<1> USE DEF OwnersInv, AllHandles, FILE
<1>1. h \notin Std /\ v \notin FILE
  BY DEF StdAssumption, NULL, Unmade
<1>2. /\ p' \in [AllHandles -> FILE \cup {NULL, Unmade}]
      /\ \A g \in AllHandles : p'[g] = IF g = h THEN v ELSE p[g]
  OBVIOUS
<1>3. /\ cls' \in [AllHandles -> {"io_noclose", "io_fclose", "io_pclose"}]
      /\ \A g \in AllHandles : g # h => cls'[g] = cls[g]
  OBVIOUS
<1>4. \A e \in Std : FILEs'[e] = "std" /\ p'[e] = e /\ cls'[e] = "io_noclose"
  BY <1>1, <1>2, <1>3
<1>5. \A g \in AllHandles : p'[g] \in FILE => FILEs'[p'[g]] # "closed"
  BY <1>1, <1>2
<1>6. \A g, k \in AllHandles : p'[g] \in FILE /\ p'[g] = p'[k] => g = k
  BY <1>1, <1>2
<1>7. ASSUME NEW e \in FILE, FILEs'[e] # "closed" PROVE \E g \in AllHandles : p'[g] = e
  <2>1. PICK g \in AllHandles : p[g] = e
    BY <1>7
  <2>2. g # h
    BY <2>1
  <2> QED
    BY <2>1, <2>2, <1>2
<1>8. \A g \in Handles : p'[g] \in FILE => Closer[FILEs'[p'[g]]] = cls'[g]
  BY <1>1, <1>2, <1>3
<1> QED
  BY <1>2, <1>3, <1>4, <1>5, <1>6, <1>7, <1>8

(* fclose, pclose: the FILE that the handle owns, and nothing else points to. *)
LEMMA ClosedKeepsOwners ==
    ASSUME StdAssumption, OwnersInv, NEW h \in Handles, p[h] \in FILE, NEW v \in {NULL, Unmade},
           p' = [p EXCEPT ![h] = v], FILEs' = [FILEs EXCEPT ![p[h]] = "closed"],
           UNCHANGED <<cls, fault>>
    PROVE  OwnersInv'
<1> USE DEF OwnersInv, AllHandles, FILE
<1>1. h \notin Std /\ v \notin FILE
  BY DEF StdAssumption, NULL, Unmade
<1>2. /\ p' \in [AllHandles -> FILE \cup {NULL, Unmade}]
      /\ \A g \in AllHandles : p'[g] = IF g = h THEN v ELSE p[g]
  OBVIOUS
<1>3. /\ FILEs' \in [FILE -> {"std", "closed", "fopen", "popen", "tmpfile"}]
      /\ \A e \in FILE : FILEs'[e] = IF e = p[h] THEN "closed" ELSE FILEs[e]
  OBVIOUS
<1>4. \A g \in AllHandles : g # h => p[g] # p[h]
  OBVIOUS
<1>5. \A e \in Std : FILEs'[e] = "std" /\ p'[e] = e /\ cls'[e] = "io_noclose"
  BY <1>1, <1>2, <1>3, <1>4
<1>6. \A e \in Streams : FILEs'[e] # "std"
  BY <1>3
<1>7. \A g \in AllHandles : p'[g] \in FILE => FILEs'[p'[g]] # "closed"
  BY <1>1, <1>2, <1>3, <1>4
<1>8. \A g, k \in AllHandles : p'[g] \in FILE /\ p'[g] = p'[k] => g = k
  BY <1>1, <1>2
<1>9. ASSUME NEW e \in FILE, FILEs'[e] # "closed" PROVE \E g \in AllHandles : p'[g] = e
  <2>1. e # p[h] /\ FILEs[e] # "closed"
    BY <1>3, <1>9
  <2>2. PICK g \in AllHandles : p[g] = e
    BY <2>1
  <2>3. g # h
    BY <2>1, <2>2
  <2> QED
    BY <2>2, <2>3, <1>2
<1>10. \A g \in Handles : p'[g] \in FILE => Closer[FILEs'[p'[g]]] = cls'[g]
  BY <1>1, <1>2, <1>3, <1>4
<1> QED
  BY <1>2, <1>3, <1>5, <1>6, <1>7, <1>8, <1>9, <1>10

(* Nothing of the files changes. *)
LEMMA SameOwners ==
    ASSUME OwnersInv, UNCHANGED <<FILEs, p, cls, fault>>
    PROVE  OwnersInv'
BY DEF OwnersInv, AllHandles, FILE

(* A handle that is open has a FILE. *)
LEMMA OpenHasFile ==
    ASSUME StdAssumption, OwnersInv, NEW h \in AllHandles
    PROVE  IsOpen(h) <=> p[h] \in FILE
BY DEF OwnersInv, IsOpen, StdAssumption, FILE, NULL, Unmade

(* Using an open handle uses an open FILE. *)
LEMMA TouchKeepsOwners ==
    ASSUME StdAssumption, OwnersInv, NEW h \in AllHandles, IsOpen(h), Touch(h),
           UNCHANGED <<FILEs, p, cls>>
    PROVE  OwnersInv'
<1>1. FILEs[p[h]] # "closed" /\ fault = FALSE
  BY OpenHasFile DEF OwnersInv
<1>2. fault' = fault
  BY <1>1 DEF Touch
<1> QED
  BY <1>2, SameOwners

(* Closing an open handle closes its FILE the way it was opened, or does nothing to a
   standard file. *)
LEMMA CloseKeepsOwners ==
    ASSUME StdAssumption, OwnersInv, NEW h \in AllHandles, IsOpen(h), aux_close(h), cls' = cls
    PROVE  /\ OwnersInv'
           /\ \A g \in AllHandles : p[g] # Unmade => p'[g] # Unmade
<1>1. p[h] \in FILE
  BY OpenHasFile
<1>2. CASE h \in Std
  <2>1. UNCHANGED <<FILEs, p, fault>>
    BY <1>2 DEF aux_close, OwnersInv
  <2> QED
    BY <2>1, SameOwners
<1>3. CASE h \notin Std
  <2>1. h \in Handles
    BY <1>3 DEF AllHandles
  <2>2. FILEs[p[h]] # "closed" /\ Closer[FILEs[p[h]]] = cls[h] /\ fault = FALSE
    BY <2>1, <1>1 DEF OwnersInv
  <2>3. FILEs[p[h]] # "std"
    <3>1. \A f \in Std : p[f] = f /\ f \in AllHandles
      BY DEF OwnersInv, AllHandles
    <3>2. p[h] \notin Std
      BY <3>1, <1>1, <1>3 DEF OwnersInv
    <3> QED
      BY <3>2, <1>1 DEF OwnersInv, FILE
  <2>4. cls[h] # "io_noclose"
    <3>1. FILEs[p[h]] \in {"fopen", "popen", "tmpfile"}
      BY <2>2, <2>3, <1>1 DEF OwnersInv
    <3> QED
      BY <3>1, <2>2 DEF Closer
  <2>5. /\ fault' = fault
        /\ p' = [p EXCEPT ![h] = NULL]
        /\ FILEs' = [FILEs EXCEPT ![p[h]] = "closed"]
    BY <2>2, <2>3, <2>4 DEF aux_close
  <2>6. OwnersInv'
    BY <2>1, <2>5, <1>1, ClosedKeepsOwners
  <2>7. \A g \in AllHandles : p[g] # Unmade => p'[g] # Unmade
    BY <2>5 DEF OwnersInv, NULL, Unmade
  <2> QED
    BY <2>6, <2>7
<1> QED
  BY <1>2, <1>3

(* A new handle that has a FILE, or none because the call failed. *)
LEMMA NewHandleKeepsOwners ==
    ASSUME StdAssumption, OwnersInv, CanOpen, NEW how \in {"fopen", "popen", "tmpfile"},
           NEW h, h = ANY(FreshHandles), fault' = fault,
           \/ ClosedStreams # {} /\ Opened(h, ANY(ClosedStreams), how)
           \/ OpenFails(h, how)
    PROVE  /\ OwnersInv'
           /\ h \in AllHandles /\ p'[h] # Unmade
           /\ \A g \in AllHandles : p[g] # Unmade => p'[g] # Unmade
<1>1. h \in FreshHandles /\ h \in Handles /\ h \in AllHandles /\ p[h] = Unmade
  BY DEF CanOpen, ANY, FreshHandles, Made, AllHandles
<1>2. p \in [AllHandles -> FILE \cup {NULL, Unmade}] /\ Unmade \notin FILE
  BY DEF OwnersInv, StdAssumption, FILE, Unmade
<1>3. CASE ClosedStreams # {} /\ Opened(h, ANY(ClosedStreams), how)
  <2>1. ANY(ClosedStreams) \in ClosedStreams
    BY <1>3 DEF ANY
  <2>2. OwnersInv'
    BY <2>1, <1>1, <1>3, OpenedKeepsOwners
  <2>3. p' = [p EXCEPT ![h] = ANY(ClosedStreams)] /\ ANY(ClosedStreams) \in FILE
    BY <2>1, <1>3 DEF Opened, ClosedStreams, FILE
  <2> QED
    BY <2>2, <2>3, <1>1, <1>2
<1>4. CASE OpenFails(h, how)
  <2>1. newfile(how) \in {"io_fclose", "io_pclose"} /\ p[h] \notin FILE
    BY <1>1, <1>2 DEF newfile
  <2>2. p' = [p EXCEPT ![h] = NULL] /\ cls' = [cls EXCEPT ![h] = newfile(how)] /\ FILEs' = FILEs
    BY <1>4 DEF OpenFails
  <2>3. OwnersInv'
    BY <2>1, <2>2, <1>1, NoFileKeepsOwners
  <2> QED
    BY <2>2, <2>3, <1>1, <1>2 DEF NULL, Unmade
<1> QED
  BY <1>3, <1>4

(* What is referred to was referred to before, or is new. *)
LEMMA ReferrersKept ==
    ASSUME ReferrersInv, NEW N, N \subseteq AllHandles, \A h \in N : p'[h] # Unmade,
           \A h \in Reachable : p'[h] # Unmade,
           held' \subseteq Reachable \cup N,
           default' \in [{"input", "output"} -> AllHandles],
           \A d \in {"input", "output"} : default'[d] \in Reachable \cup N,
           iterators' \subseteq Iterators,
           \A i \in iterators' : i.file \in Reachable \cup N
    PROVE  ReferrersInv'
<1>1. Reachable \subseteq AllHandles
  BY DEF ReferrersInv, Reachable, Iterators
<1>2. Reachable' \subseteq Reachable \cup N
  BY DEF Reachable
<1>3. \A h \in Reachable' : Made(h)'
  BY <1>2 DEF Made
<1>4. held' \subseteq AllHandles
  BY <1>1
<1> QED
  BY <1>3, <1>4 DEF ReferrersInv

(* The handles, defaults and iterators a script may refer to. *)
LEMMA ReachableFacts ==
    ASSUME ReferrersInv
    PROVE  /\ Reachable \subseteq AllHandles /\ held \subseteq Reachable
           /\ default \in [{"input", "output"} -> AllHandles]
           /\ \A d \in {"input", "output"} : default[d] \in Reachable
           /\ iterators \subseteq Iterators /\ \A i \in iterators : i.file \in Reachable
           /\ \A h \in Reachable : h \in AllHandles /\ p[h] # Unmade
<1>1. Reachable \subseteq AllHandles
  BY DEF ReferrersInv, Reachable, Iterators
<1>2. \A d \in {"input", "output"} : default[d] \in Reachable
  BY DEF Reachable
<1>3. \A h \in Reachable : p[h] # Unmade
  BY DEF ReferrersInv, Made
<1> QED
  BY <1>1, <1>2, <1>3 DEF ReferrersInv, Reachable

(* What all the calls that open a file have in common: the new handle is the only thing
   that scripts can refer to besides what they could before. *)
LEMMA NewHandleKeepsIo ==
    ASSUME IoInv, CanOpen, NEW how \in {"fopen", "popen", "tmpfile"},
           NEW h, h = ANY(FreshHandles), fault' = fault,
           \/ ClosedStreams # {} /\ Opened(h, ANY(ClosedStreams), how)
           \/ OpenFails(h, how),
           held' \in {held, held \cup {h}},
           default' \in {default, [default EXCEPT !["input"] = h], [default EXCEPT !["output"] = h]},
           iterators' \in {iterators, iterators \cup {[file |-> h, toclose |-> TRUE]}}
    PROVE  IoInv'
<1>1. StdAssumption /\ OwnersInv /\ ReferrersInv
  BY DEF IoInv
<1>2. /\ OwnersInv'
      /\ h \in AllHandles /\ p'[h] # Unmade
      /\ \A g \in AllHandles : p[g] # Unmade => p'[g] # Unmade
  BY <1>1, NewHandleKeepsOwners
<1> DEFINE N == {h}
<1>3. \A g \in Reachable : p'[g] # Unmade
  BY <1>1, <1>2, ReachableFacts
<1>4. held' \subseteq Reachable \cup N
  BY <1>1, ReachableFacts
<1>5. /\ default' \in [{"input", "output"} -> AllHandles]
      /\ \A d \in {"input", "output"} : default'[d] \in Reachable \cup N
  BY <1>1, <1>2, ReachableFacts
<1>6. iterators' \subseteq Iterators /\ \A i \in iterators' : i.file \in Reachable \cup N
  <2> DEFINE new == [file |-> h, toclose |-> TRUE]
  <2>1. new \in Iterators /\ new.file = h
    BY <1>2 DEF Iterators
  <2>2. iterators \subseteq Iterators /\ \A i \in iterators : i.file \in Reachable
    BY <1>1, ReachableFacts
  <2>3. iterators' \in {iterators, iterators \cup {new}}
    OBVIOUS
  <2> HIDE DEF new
  <2> QED
    BY <2>1, <2>2, <2>3
<1>7. ReferrersInv'
  <2>1. N \subseteq AllHandles /\ \A g \in N : p'[g] # Unmade
    BY <1>2
  <2> HIDE DEF N
  <2> QED
    BY ONLY <2>1, <1>1, <1>3, <1>4, <1>5, <1>6, ReferrersKept
<1> QED
  BY <1>1, <1>2, <1>7 DEF IoInv, StdAssumption

(* Nothing new is referred to, and no handle that is referred to is collected. *)
LEMMA FewerReferrers ==
    ASSUME IoInv, OwnersInv', \A h \in Reachable : p'[h] # Unmade,
           held' \subseteq Reachable,
           default' \in [{"input", "output"} -> AllHandles],
           \A d \in {"input", "output"} : default'[d] \in Reachable,
           iterators' \subseteq Iterators,
           \A i \in iterators' : i.file \in Reachable
    PROVE  IoInv'
<1>1. ReferrersInv /\ {} \subseteq AllHandles /\ Reachable \cup {} = Reachable
  BY DEF IoInv
<1>2. ReferrersInv'
  BY <1>1, ReferrersKept
<1> QED
  BY <1>2 DEF IoInv, StdAssumption

-----------------------------------------------------------------------------
(* luaopen_io makes the handles of the standard files. *)
LEMMA IoInvInit == StdAssumption /\ luaopen_io => IoInv
<1> SUFFICES ASSUME StdAssumption, luaopen_io PROVE IoInv
  OBVIOUS
<1>1. Unmade \notin FILE /\ NULL \notin FILE /\ Unmade \notin Std /\ NULL \notin Std
      /\ Handles \cap Std = {} /\ Streams \cap Std = {}
  BY DEF StdAssumption, NULL, Unmade, FILE
<1>2. /\ \A h \in AllHandles : p[h] = IF h \in Std THEN h ELSE Unmade
      /\ \A h \in AllHandles : cls[h] = IF h \in Std THEN "io_noclose" ELSE "io_fclose"
      /\ \A f \in FILE : FILEs[f] = IF f \in Std THEN "std" ELSE "closed"
      /\ p \in [AllHandles -> FILE \cup {NULL, Unmade}]
      /\ cls \in [AllHandles -> {"io_noclose", "io_fclose", "io_pclose"}]
      /\ FILEs \in [FILE -> {"std", "closed", "fopen", "popen", "tmpfile"}]
      /\ fault = FALSE
  BY DEF luaopen_io, FILE
<1>3. \A h \in AllHandles : p[h] \in FILE => h \in Std /\ p[h] = h
  BY <1>1, <1>2
<1>4. \A h \in Std : h \in AllHandles /\ h \in FILE
  BY DEF AllHandles, FILE
<1>5. OwnersInv
  <2>1. \A f \in Std : FILEs[f] = "std" /\ p[f] = f /\ cls[f] = "io_noclose"
    BY <1>2, <1>4
  <2>2. \A f \in Streams : FILEs[f] # "std"
    BY <1>1, <1>2 DEF FILE
  <2>3. \A h \in AllHandles : p[h] \in FILE => FILEs[p[h]] # "closed"
    BY <1>2, <1>3
  <2>4. \A g, h \in AllHandles : p[g] \in FILE /\ p[g] = p[h] => g = h
    BY <1>3
  <2>5. \A f \in FILE : FILEs[f] # "closed" => \E h \in AllHandles : p[h] = f
    BY <1>2, <1>4
  <2>6. \A h \in Handles : p[h] \notin FILE
    BY <1>1, <1>3 DEF AllHandles
  <2> QED
    BY <1>2, <2>1, <2>2, <2>3, <2>4, <2>5, <2>6 DEF OwnersInv
<1>6. ReferrersInv
  <2>1. /\ held = Std /\ default = [input |-> "stdin", output |-> "stdout"] /\ iterators = {}
        /\ {"stdin", "stdout"} \subseteq Std
    BY DEF luaopen_io, StdAssumption
  <2>2. Reachable \subseteq Std
    BY <2>1 DEF Reachable
  <2>3. \A h \in Std : p[h] # Unmade /\ h \in AllHandles
    BY <1>1, <1>2, <1>4
  <2>4. default \in [{"input", "output"} -> AllHandles]
    BY <2>1, <2>3
  <2> QED
    BY <2>1, <2>2, <2>3, <2>4 DEF ReferrersInv, Made
<1> QED
  BY <1>5, <1>6 DEF IoInv

(* Every call, every step of a loop over lines and the collector keep it. *)
LEMMA IoInvNext == IoInv /\ [IoNext]_ioVars => IoInv'
<1> SUFFICES ASSUME IoInv, [IoNext]_ioVars PROVE IoInv'
  OBVIOUS
<1>1. StdAssumption /\ OwnersInv /\ ReferrersInv
  BY DEF IoInv
<1>2. /\ Reachable \subseteq AllHandles /\ held \subseteq Reachable
      /\ default \in [{"input", "output"} -> AllHandles]
      /\ \A d \in {"input", "output"} : default[d] \in Reachable
      /\ iterators \subseteq Iterators /\ \A i \in iterators : i.file \in Reachable
      /\ \A h \in Reachable : h \in AllHandles /\ p[h] # Unmade
  BY <1>1, ReachableFacts
<1>3. ASSUME NEW how \in {"fopen", "popen", "tmpfile"}, io_open(how) PROVE IoInv'
  BY <1>3, NewHandleKeepsIo DEF io_open
<1>4. ASSUME NEW d \in {"input", "output"}, g_iofile(d) PROVE IoInv'
  BY <1>4, NewHandleKeepsIo DEF g_iofile
<1>5. CASE io_lines
  BY <1>5, NewHandleKeepsIo DEF io_lines
<1>6. ASSUME NEW d \in {"input", "output"}, NEW h \in AllHandles, SetDefault(d, h) PROVE IoInv'
  <2>1. OwnersInv'
    BY <1>1, <1>6, SameOwners DEF SetDefault
  <2>2. h \in Reachable /\ default' = [default EXCEPT ![d] = h]
    BY <1>2, <1>6 DEF SetDefault
  <2>3. /\ default' \in [{"input", "output"} -> AllHandles]
        /\ \A e \in {"input", "output"} : default'[e] \in Reachable
    BY <1>2, <2>2
  <2> QED
    BY <1>2, <1>6, <2>1, <2>3, FewerReferrers DEF SetDefault
<1>7. ASSUME NEW d \in {"input", "output"}, GetDefault(d) PROVE IoInv'
  <2>1. OwnersInv'
    BY <1>1, <1>7, SameOwners DEF GetDefault
  <2> QED
    BY <1>2, <1>7, <2>1, FewerReferrers DEF GetDefault
<1>8. ASSUME NEW d \in {"input", "output"}, getiofile(d) PROVE IoInv'
  <2>1. OwnersInv'
    BY <1>1, <1>2, <1>8, TouchKeepsOwners DEF getiofile, tofile
  <2> QED
    BY <1>2, <1>8, <2>1, FewerReferrers DEF getiofile
<1>9. ASSUME NEW h \in AllHandles, f_lines(h) PROVE IoInv'
  <2>1. OwnersInv'
    BY <1>1, <1>9, SameOwners DEF f_lines
  <2>2. h \in Reachable
    BY <1>2, <1>9 DEF f_lines
  <2>3. iterators' \subseteq Iterators /\ \A i \in iterators' : i.file \in Reachable
    <3> DEFINE new == [file |-> h, toclose |-> FALSE]
    <3>1. new \in Iterators /\ new.file = h
      BY DEF Iterators
    <3>2. iterators' = iterators \cup {new}
      BY <1>9 DEF f_lines
    <3> HIDE DEF new
    <3> QED
      BY <1>2, <2>2, <3>1, <3>2
  <2> QED
    BY <1>2, <1>9, <2>1, <2>3, FewerReferrers DEF f_lines
<1>10. ASSUME NEW h \in AllHandles, io_close(h) PROVE IoInv'
  <2>1. OwnersInv' /\ \A g \in AllHandles : p[g] # Unmade => p'[g] # Unmade
    BY <1>1, <1>10, CloseKeepsOwners DEF io_close
  <2> QED
    BY <1>2, <1>10, <2>1, FewerReferrers DEF io_close
<1>11. ASSUME NEW h \in AllHandles, io_gc(h) PROVE IoInv'
  <2>1. h \in Handles /\ h \notin Reachable /\ p' = [p EXCEPT ![h] = Unmade] /\ cls' = cls
        /\ UNCHANGED <<default, held, iterators>>
    BY <1>11 DEF io_gc
  <2>2. OwnersInv'
    <3>1. CASE IsOpen(h)
      <4>1. p[h] \in FILE
        BY <1>1, <3>1, OpenHasFile
      <4>2. FILEs[p[h]] # "closed" /\ Closer[FILEs[p[h]]] = cls[h] /\ fault = FALSE
        BY <1>1, <2>1, <4>1 DEF OwnersInv
      <4>3. fault' = fault /\ FILEs' = [FILEs EXCEPT ![p[h]] = "closed"]
        BY <1>11, <3>1, <4>2 DEF io_gc
      <4> QED
        BY <1>1, <2>1, <4>1, <4>3, ClosedKeepsOwners
    <3>2. CASE ~IsOpen(h)
      <4>1. p[h] \notin FILE
        BY <1>1, <3>2, OpenHasFile
      <4>2. UNCHANGED <<FILEs, fault>>
        BY <1>11, <3>2 DEF io_gc
      <4> QED
        BY <1>1, <2>1, <4>1, <4>2, NoFileKeepsOwners
    <3> QED
      BY <3>1, <3>2
  <2>3. \A g \in Reachable : p'[g] # Unmade
    <3>1. p \in [AllHandles -> FILE \cup {NULL, Unmade}]
      BY <1>1 DEF OwnersInv
    <3> QED
      BY <1>2, <2>1, <3>1
  <2> QED
    BY <1>2, <2>1, <2>2, <2>3, FewerReferrers
<1>12. ASSUME NEW h \in AllHandles, f_read(h) PROVE IoInv'
  <2>1. OwnersInv'
    BY <1>1, <1>12, TouchKeepsOwners DEF f_read, tofile
  <2> QED
    BY <1>2, <1>12, <2>1, FewerReferrers DEF f_read
<1>13. ASSUME NEW h \in AllHandles, Drop(h) PROVE IoInv'
  <2>1. OwnersInv'
    BY <1>1, <1>13, SameOwners DEF Drop
  <2> QED
    BY <1>2, <1>13, <2>1, FewerReferrers DEF Drop
<1>14. ASSUME NEW i \in Iterators, io_readline(i) PROVE IoInv'
  <2>1. i \in iterators /\ IsOpen(i.file) /\ i.file \in AllHandles
    BY <1>2, <1>14 DEF io_readline
  <2>2. UNCHANGED <<cls, default, held>> /\ iterators' \subseteq iterators
    BY <1>14 DEF io_readline, io_readline_Line, io_readline_End
  <2>3. \/ aux_close(i.file)
        \/ Touch(i.file) /\ UNCHANGED <<FILEs, p>>
    BY <1>14 DEF io_readline, io_readline_Line, io_readline_End
  <2>4. OwnersInv' /\ \A g \in AllHandles : p[g] # Unmade => p'[g] # Unmade
    BY <1>1, <2>1, <2>2, <2>3, CloseKeepsOwners, TouchKeepsOwners
  <2> QED
    BY <1>2, <2>2, <2>4, FewerReferrers
<1>15. ASSUME NEW i \in Iterators, DropIterator(i) PROVE IoInv'
  <2>1. OwnersInv'
    BY <1>1, <1>15, SameOwners DEF DropIterator
  <2> QED
    BY <1>2, <1>15, <2>1, FewerReferrers DEF DropIterator
<1>16. CASE UNCHANGED ioVars
  <2>1. OwnersInv'
    BY <1>1, <1>16, SameOwners DEF ioVars
  <2> QED
    BY <1>2, <1>16, <2>1, FewerReferrers DEF ioVars
<1> QED
  BY <1>3, <1>4, <1>5, <1>6, <1>7, <1>8, <1>9, <1>10, <1>11, <1>12, <1>13, <1>14, <1>15, <1>16
     DEF IoNext

(* One handle points to an open FILE. *)
LEMMA OneHandle == OwnersInv => OneOwner
<1> SUFFICES ASSUME OwnersInv, NEW f \in FILE, FILEs[f] # "closed"
             PROVE  Cardinality({h \in AllHandles : p[h] = f}) = 1
  BY DEF OneOwner, FILE
<1>1. PICK h \in AllHandles : p[h] = f
  BY DEF OwnersInv
<1>2. {g \in AllHandles : p[g] = f} = {h}
  BY <1>1 DEF OwnersInv
<1> QED
  BY <1>2, FS_Singleton

(* Whatever scripts open, close, forget and iterate, and whenever the collector runs:
   every open FILE has one handle, is used while it is open, and is closed once, the way
   it was opened; the standard files stay open. *)
THEOREM FilesAlwaysSound == StdAssumption /\ IoSpec => []FilesSound
<1>1. IoInv => FilesSound
  <2>1. IoInv => HandlesTyped
    BY DEF IoInv, OwnersInv, ReferrersInv, HandlesTyped, FILE
  <2>2. IoInv => NothingMisused /\ StandardFilesStay
    BY DEF IoInv, OwnersInv, NothingMisused, StandardFilesStay
  <2> QED
    BY <2>1, <2>2, OneHandle DEF IoInv, FilesSound
<1> QED
  BY IoInvInit, IoInvNext, <1>1, PTL DEF IoSpec
=============================================================================
