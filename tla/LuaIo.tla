-------------------------------- MODULE LuaIo --------------------------------
(***************************************************************************)
(* The io library (lua/liolib.c): file handles and the FILEs of the C      *)
(* library they own, the default files, the iterators of io.lines, and the *)
(* collector, which closes what a script forgot.                           *)
(*                                                                         *)
(* A handle is a userdata with a FILE* and an environment whose __close    *)
(* knows how to close it: fclose, pclose, or not at all.                   *)
(***************************************************************************)
EXTENDS Integers, Sequences, FiniteSets

CONSTANTS
    Handles,   \* userdata for files that a script opens
    Streams,   \* FILEs that fopen, popen and tmpfile return
    Std        \* {"stdin", "stdout", "stderr"}, or some of them

(* What the constants are assumed to be: NULL and "unmade" are no FILEs. *)
ASSUME StdAssumption ==
    /\ {"stdin", "stdout"} \subseteq Std
    /\ Handles \cap Std = {} /\ Streams \cap Std = {}
    /\ {"NULL", "unmade"} \cap (Streams \cup Std) = {}

VARIABLES
    FILEs,      \* FILEs[f]: how an open FILE was opened, or "closed"
    p,          \* p[h]: the FILE* of a handle: NULL when closed
    cls,        \* cls[h]: the function __close of its environment
    default,    \* the handles in IO_INPUT and IO_OUTPUT
    held,       \* handles that the script has
    iterators,  \* functions of lines that the script has: handle, toclose
    fault       \* a FILE was used or closed that is not open, or closed the wrong way

ioVars == <<FILEs, p, cls, default, held, iterators, fault>>

NULL == "NULL"
Unmade == "unmade"     \* the userdata does not exist
AllHandles == Handles \cup Std
Made(h) == p[h] # Unmade
IsOpen(h) == p[h] \notin {NULL, Unmade}

FreshHandles == {h \in Handles : ~Made(h)}
ClosedStreams == {f \in Streams : FILEs[f] = "closed"}
ANY(S) == CHOOSE x \in S : TRUE

(* The handles of the standard files *)
luaopen_io ==
    /\ FILEs = [f \in Streams \cup Std |-> IF f \in Std THEN "std" ELSE "closed"]
    /\ p = [h \in AllHandles |-> IF h \in Std THEN h ELSE Unmade]
    /\ cls = [h \in AllHandles |-> IF h \in Std THEN "io_noclose" ELSE "io_fclose"]
    /\ default = [input |-> "stdin", output |-> "stdout"]
    /\ held = Std
    /\ iterators = {}
    /\ fault = FALSE

-----------------------------------------------------------------------------
(* Opening.  The new userdata has the environment of the function that runs. *)

newfile_OfFunction(how) == "io_fclose"
newfile(how) == IF how = "popen" THEN "io_pclose" ELSE "io_fclose"

(* The call that opens fails, and leaves a closed handle that nothing refers to, or
   gives h the FILE f. *)
Opened(h, f, how) ==
    /\ FILEs' = [FILEs EXCEPT ![f] = how]
    /\ p' = [p EXCEPT ![h] = f]
    /\ cls' = [cls EXCEPT ![h] = newfile(how)]

OpenFails(h, how) ==
    /\ p' = [p EXCEPT ![h] = NULL]
    /\ cls' = [cls EXCEPT ![h] = newfile(how)]
    /\ UNCHANGED FILEs

CanOpen == FreshHandles # {}

(* io.open, io.popen and io.tmpfile *)
io_open(how) ==
    /\ CanOpen
    /\ LET h == ANY(FreshHandles)
       IN  \/ /\ ClosedStreams # {}
              /\ Opened(h, ANY(ClosedStreams), how)
              /\ held' = held \cup {h}
           \/ OpenFails(h, how) /\ UNCHANGED held
    /\ UNCHANGED <<default, iterators, fault>>

(* io.input (name) and io.output (name) *)
g_iofile(d) ==
    /\ CanOpen
    /\ LET h == ANY(FreshHandles)
       IN  \/ /\ ClosedStreams # {}
              /\ Opened(h, ANY(ClosedStreams), "fopen")
              /\ default' = [default EXCEPT ![d] = h]
           \/ OpenFails(h, "fopen") /\ UNCHANGED default
    /\ UNCHANGED <<held, iterators, fault>>

(* io.input (h); a closed file is refused. *)
SetDefault(d, h) ==
    /\ h \in held /\ IsOpen(h)
    /\ default' = [default EXCEPT ![d] = h]
    /\ UNCHANGED <<FILEs, p, cls, held, iterators, fault>>

(* h = io.input (), io.output () *)
GetDefault(d) ==
    /\ held' = held \cup {default[d]}
    /\ UNCHANGED <<FILEs, p, cls, default, iterators, fault>>

(* io.lines (name) *)
io_lines ==
    /\ CanOpen
    /\ LET h == ANY(FreshHandles)
       IN  \/ /\ ClosedStreams # {}
              /\ Opened(h, ANY(ClosedStreams), "fopen")
              /\ iterators' = iterators \cup {[file |-> h, toclose |-> TRUE]}
           \/ OpenFails(h, "fopen") /\ UNCHANGED iterators
    /\ UNCHANGED <<default, held, fault>>

(* h:lines (), and io.lines () of the default input *)
f_lines(h) ==
    /\ h \in held \cup {default.input} /\ IsOpen(h)
    /\ iterators' = iterators \cup {[file |-> h, toclose |-> FALSE]}
    /\ UNCHANGED <<FILEs, p, cls, default, held, fault>>

-----------------------------------------------------------------------------
(* Closing. *)

Closer == [fopen |-> "io_fclose", popen |-> "io_pclose", tmpfile |-> "io_fclose"]

aux_close_KeepsPointer(h) ==
    /\ FILEs' = IF cls[h] = "io_noclose" THEN FILEs ELSE [FILEs EXCEPT ![p[h]] = "closed"]
    /\ fault' = (fault \/ (cls[h] # "io_noclose" /\ FILEs[p[h]] = "closed"))
    /\ UNCHANGED p

aux_close_Always(h) ==
    /\ FILEs' = [FILEs EXCEPT ![p[h]] = "closed"]
    /\ p' = [p EXCEPT ![h] = NULL]
    /\ UNCHANGED fault

(* io_noclose, io_fclose or io_pclose.  The pointer is reset even where closing fails. *)
aux_close(h) ==
    IF cls[h] = "io_noclose" THEN UNCHANGED <<FILEs, p, fault>>
    ELSE /\ fault' = (fault \/ FILEs[p[h]] = "closed" \/ FILEs[p[h]] = "std"
                            \/ Closer[FILEs[p[h]]] # cls[h])
         /\ FILEs' = [FILEs EXCEPT ![p[h]] = "closed"]
         /\ p' = [p EXCEPT ![h] = NULL]

(* h:close (), and io.close () of the default output *)
io_close(h) ==
    /\ h \in held \cup {default.output} /\ IsOpen(h)
    /\ aux_close(h)
    /\ UNCHANGED <<cls, default, held, iterators>>

Reachable == held \cup {default.input, default.output} \cup {i.file : i \in iterators}

io_gc_IgnoresIterators(h) ==
    /\ h \in Handles /\ Made(h) /\ h \notin held \cup {default.input, default.output}
    /\ FILEs' = IF IsOpen(h) THEN [FILEs EXCEPT ![p[h]] = "closed"] ELSE FILEs
    /\ p' = [p EXCEPT ![h] = Unmade]
    /\ UNCHANGED <<cls, default, held, iterators, fault>>

io_gc_Nothing(h) ==
    /\ h \in Handles /\ Made(h) /\ h \notin Reachable
    /\ p' = [p EXCEPT ![h] = Unmade]
    /\ UNCHANGED <<FILEs, cls, default, held, iterators, fault>>

(* The collector finalizes a handle, and the userdata can be used again. *)
io_gc(h) ==
    /\ h \in Handles /\ Made(h) /\ h \notin Reachable
    /\ IF IsOpen(h)
       THEN /\ fault' = (fault \/ FILEs[p[h]] = "closed" \/ Closer[FILEs[p[h]]] # cls[h])
            /\ FILEs' = [FILEs EXCEPT ![p[h]] = "closed"]
       ELSE UNCHANGED <<FILEs, fault>>
    /\ p' = [p EXCEPT ![h] = Unmade]
    /\ UNCHANGED <<cls, default, held, iterators>>

-----------------------------------------------------------------------------
(* Reading and writing. *)

Touch(h) == fault' = (fault \/ FILEs[p[h]] = "closed")

tofile(h) == IsOpen(h)

(* h:read, write, seek, setvbuf and flush: g_read and g_write *)
f_read(h) ==
    /\ h \in held /\ tofile(h)
    /\ Touch(h)
    /\ UNCHANGED <<FILEs, p, cls, default, held, iterators>>

(* io.read, io.write and io.flush *)
getiofile(d) ==
    /\ tofile(default[d])
    /\ Touch(default[d])
    /\ UNCHANGED <<FILEs, p, cls, default, held, iterators>>

(* A step of a for over lines: a line or an error, or the end of the file, where the loop
   ends too. *)
io_readline_Line(i) ==
    /\ Touch(i.file)
    /\ UNCHANGED <<FILEs, p, cls, default, held, iterators>>


io_readline_End(i) ==
    /\ IF i.toclose THEN aux_close(i.file) ELSE Touch(i.file) /\ UNCHANGED <<FILEs, p>>
    /\ iterators' \in {iterators, iterators \ {i}}
    /\ UNCHANGED <<cls, default, held>>

io_readline(i) ==
    /\ i \in iterators /\ IsOpen(i.file)
    /\ io_readline_Line(i) \/ io_readline_End(i)

-----------------------------------------------------------------------------
(* The script drops what it has: a break out of a loop, or an error. *)

Drop(h) ==
    /\ h \in held
    /\ held' = held \ {h}
    /\ UNCHANGED <<FILEs, p, cls, default, iterators, fault>>

DropIterator(i) ==
    /\ i \in iterators
    /\ iterators' = iterators \ {i}
    /\ UNCHANGED <<FILEs, p, cls, default, held, fault>>

Iterators == [file : AllHandles, toclose : BOOLEAN]

IoNext ==
    \/ \E how \in {"fopen", "popen", "tmpfile"} : io_open(how)
    \/ \E d \in {"input", "output"} :
        g_iofile(d) \/ GetDefault(d) \/ getiofile(d) \/ \E h \in AllHandles : SetDefault(d, h)
    \/ io_lines
    \/ \E h \in AllHandles : f_lines(h) \/ io_close(h) \/ io_gc(h) \/ f_read(h) \/ Drop(h)
    \/ \E i \in Iterators : io_readline(i) \/ DropIterator(i)

IoSpec == luaopen_io /\ [][IoNext]_ioVars

-----------------------------------------------------------------------------
(* Properties *)

HandlesTyped ==
    /\ p \in [AllHandles -> Streams \cup Std \cup {NULL, Unmade}]
    /\ cls \in [AllHandles -> {"io_noclose", "io_fclose", "io_pclose"}]
    /\ FILEs \in [Streams \cup Std -> {"std", "closed", "fopen", "popen", "tmpfile"}]
    /\ iterators \subseteq Iterators
    /\ \A h \in Reachable : Made(h)

(* An open FILE belongs to one handle: it is neither lost nor closed twice. *)
OneOwner ==
    \A f \in Streams \cup Std : FILEs[f] # "closed" => Cardinality({h \in AllHandles : p[h] = f}) = 1

(* Every way in which a FILE is closed, by a script, by the end of a loop over its lines
   and by the collector, fits the way it was opened, and no closed FILE is used. *)
NothingMisused == ~fault

(* "cannot close standard file": nothing a script does closes one. *)
StandardFilesStay == \A f \in Std : FILEs[f] = "std" /\ p[f] = f


(* A file that a script forgets is closed. *)
Forgotten(f) == FILEs[f] # "closed" /\ \A h \in Reachable : p[h] # f
ForgottenFilesClose == \A f \in Streams : Forgotten(f) ~> FILEs[f] = "closed"

(* Every open FILE has one handle, is used while it is open and closed once, the way it
   was opened; the standard files stay. *)
FilesSound == HandlesTyped /\ OneOwner /\ NothingMisused /\ StandardFilesStay
=============================================================================
