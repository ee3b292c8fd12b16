---------------------------- MODULE MCLibraries ----------------------------
(***************************************************************************)
(* Three standard libraries for TLC: modules (LuaRequire), files (LuaIo)   *)
(* and patterns (LuaPattern).  None calls another: a behaviour runs one of  *)
(* them, and the others stay as they are.                                  *)
(***************************************************************************)
EXTENDS LuaRequire, LuaIo

CONSTANTS MaxSubject, MaxPattern

VARIABLES
    call, pos, ms, found, out,                              \* of LuaPattern
    part

-----------------------------------------------------------------------------
(* Modules a, a.b and c.  The library of a has only a.b's function, and only c is a Lua
   file; a can be preloaded, and a script can use its name for something else.  Two chunks
   in each other are enough for a cycle, and for a chunk inside itself. *)

a == <<"a">>
ab == <<"a", "b">>
c == <<"c">>

MCNames == {a, ab, c}
MCLibraries_ == {a}
MCFunctions == [lib \in MCLibraries_ |-> {ab}]
MCFiles == [n \in MCNames |-> IF n = c THEN "chunk" ELSE "none"]
MCPreloads == {a}
MCAssigned == {a}

-----------------------------------------------------------------------------
(* Patterns: short ones of every kind, and repetitions inside and around a capture that
   are tried, undone and tried again, and compared later. *)

NUL == "nul"                \* as in LuaPattern
One(set, rep) == [op |-> "one", set |-> set, rep |-> rep]
Open == [op |-> "open"]
Close == [op |-> "close"]
Back(n) == [op |-> "back", n |-> n]
Letters == {"a", "b"}
Subjects == UNION {[1..n -> Letters] : n \in 0..MaxSubject}

Repeats == {One({"a"}, rep) : rep \in {"", "?", "*", "-", "+"}} \cup {One(Letters, "*"), One({"b"}, "")}
Others == {[op |-> "position"], [op |-> "balance", open |-> "a", close |-> "b"],
           [op |-> "frontier", set |-> {"b"}], [op |-> "frontier", set |-> {"b", NUL}], [op |-> "end"]}
AllItems == Repeats \cup Others \cup {Open, Close, Back(1)}

UpTo(items, n) == UNION {[1..k -> items] : k \in 0..n}
LegalEnd(q) == \A i \in DOMAIN q : q[i].op = "end" => i = Len(q)
ShortPatterns == {q \in UpTo(AllItems, MaxPattern) : LegalEnd(q)}
CapturePatterns ==
    {before \o <<Open, r, Close>> \o after :
        before \in UpTo(Repeats, 1), r \in Repeats, after \in UpTo(Repeats \cup {Back(1)}, 1)}

Patterns == INSTANCE LuaPattern WITH
    Patterns <- ShortPatterns \cup CapturePatterns, Limits <- {1, 9}, LUA_MAXCAPTURES <- 2

ASSUME Patterns!LimitsAssumption

-----------------------------------------------------------------------------
patternVars == <<call, pos, ms, found, out>>
all == <<vars, patternVars, ioVars, part>>

MCInit ==
    /\ part \in {"modules", "files", "patterns"}
    /\ Init
    /\ luaopen_io
    /\ IF part = "patterns" THEN Patterns!Init
       ELSE call = <<>> /\ pos = 0 /\ ms = <<>> /\ found = <<>> /\ out = <<>>

MCNext ==
    \/ part = "modules" /\ Next /\ UNCHANGED <<part, patternVars, ioVars>>
    \/ part = "files" /\ IoNext /\ UNCHANGED <<part, vars, patternVars>>
    \/ part = "patterns" /\ Patterns!Next /\ UNCHANGED <<part, vars, ioVars>>

MCSpec == MCInit /\ [][MCNext]_all

-----------------------------------------------------------------------------
Matching == part = "patterns"

(* LuaPattern: a search finds the best match, with its captures. *)
SearchesSound == Matching => Patterns!SearchesSound

(* LuaPattern: gmatch and gsub go over the subject in order and lose none of it. *)
IterationsSound == Matching => Patterns!IterationsSound

(* LuaPattern: a search that goes on has moved on. *)
SearchMovesOn == [][Matching => Patterns!MovesOn]_all
=============================================================================
