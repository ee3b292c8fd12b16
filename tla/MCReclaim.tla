----------------------------- MODULE MCReclaim -----------------------------
(***************************************************************************)
(* What the collector owes those who rely on it, for TLC: it frees garbage *)
(* (LuaGC), a userdata that a script forgets closes its file (LuaIo,       *)
(* extended) and destroys its object (LuaObjects).  LuaIo and LuaObjects   *)
(* have the collector as a fair action of their own, which is what         *)
(* GarbageIsFreed and FinalizedBeforeFree of LuaGC allow.  A behaviour     *)
(* runs one of the three; the other two stay as they are.                  *)
(***************************************************************************)
EXTENDS LuaIo

CONSTANTS Main, nil, Free, u1, u2, v

VARIABLES
    part,
    g, stack, program,    \* of LuaGC
    m                     \* of LuaObjects

(* Tables and userdata that refer to each other and to a string; a coroutine with a closure
   over its local, which may be a string; weak tables, and full collections.  Objects of
   two are dropped and come back: strings that are made again, userdata for their
   finalizer and what they refer to. *)
MCPrograms ==
    { [memory |-> 2, tables |-> {"list"}, udata |-> {"gc", "plain"}, contents |-> {1},
       threads |-> 0, stack |-> 2, full |-> FALSE],
      [memory |-> 3, tables |-> {}, udata |-> {}, contents |-> {1},
       threads |-> 1, stack |-> 2, full |-> FALSE],
      [memory |-> 2, tables |-> {"list", "v"}, udata |-> {"gc"}, contents |-> {},
       threads |-> 0, stack |-> 2, full |-> TRUE] }

Collector == INSTANCE LuaGC WITH Addr <- {1, 2, 3}, Programs <- MCPrograms

Objects == INSTANCE LuaObjects WITH
    MaxObjects <- 2, Udata <- {u1, u2}, CppVars <- {v}, MaxErrors <- 1,
    Intrusive <- TRUE, Unlinks <- TRUE, Mixing <- FALSE, Nils <- FALSE

ASSUME Collector!AddrAssumption

collectorVars == <<g, stack, program>>
others == <<part, collectorVars, m>>

MCInit == part \in {"collector", "files", "objects"} /\ luaopen_io /\ Collector!Init /\ Objects!Init

MCNext ==
    \/ part = "files" /\ IoNext /\ UNCHANGED others
    \/ part = "collector" /\ Collector!Next /\ UNCHANGED <<part, ioVars, m>>
    \/ part = "objects" /\ Objects!Next /\ UNCHANGED <<part, ioVars, collectorVars>>

(* A singlestep of the collector is possible in every state: weak fairness of it is that
   there is no end of them. *)
MCSpec ==
    /\ MCInit
    /\ [][MCNext]_<<ioVars, others>>
    /\ \A h \in Handles : WF_<<ioVars, others>>(part = "files" /\ io_gc(h) /\ UNCHANGED others)
    /\ part = "collector" =>
        []<><<Collector!singlestep /\ UNCHANGED <<program, part, ioVars, m>>>>_<<ioVars, others>>
    /\ \A u \in {u1, u2} :
        WF_<<ioVars, others>>(/\ part = "objects" /\ Objects!Collect(u)
                            /\ UNCHANGED <<part, ioVars, collectorVars>>)

-----------------------------------------------------------------------------
(* LuaGC: garbage that the program does not reach again is freed. *)
GarbageIsFreed == Collector!GarbageIsFreed

(* LuaIo and LuaObjects: what a script dropped is released, a file by closing it and an
   object of C++ by its destructor. *)
FinalizersRelease == ForgottenFilesClose /\ Objects!LuaObjectsDestroyed
=============================================================================
