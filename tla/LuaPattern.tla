----------------------------- MODULE LuaPattern ------------------------------
(***************************************************************************)
(* Pattern matching in strings: string.find, match, gmatch and gsub of     *)
(* lua/lstrlib.c.                                                          *)
(*                                                                         *)
(* match is a backtracking search that keeps its captures in one           *)
(* MatchState, undone by hand on the way back.  ms below is that state: a  *)
(* branch that fails gives back what it has left in it.  A pattern is the  *)
(* sequence of its items, a position an offset from 0, as in the code.     *)
(* Items: one (a character of a set, rep times), open "(", position "()",  *)
(* close ")", balance "%bxy", frontier "%f[set]", back "%n", end "$".      *)
(***************************************************************************)
EXTENDS Integers, SequencesExt, FiniteSetsExt

CONSTANTS
    Subjects,          \* strings: sequences of characters
    Patterns,          \* sequences of items
    Limits,            \* values for the argument max_s of gsub
    LUA_MAXCAPTURES

CAP_UNFINISHED == -1
CAP_POSITION == -2
NULL == -1
Raised == -2            \* luaL_error
NUL == "nul"            \* '\0', at both ends of a string

LimitsAssumption == LUA_MAXCAPTURES \in Nat /\ Limits \subseteq Nat

VARIABLES
    call,     \* the function and its arguments
    pos,      \* where the next match starts: s1, src or the third upvalue of gmatch_aux
    ms,       \* the MatchState after the last call of match
    found,    \* the matches found: [from, to, captures]
    out       \* gsub: the pieces of the result, as the parts of the subject they stand for

vars == <<call, pos, ms, found, out>>

Item(m, p) == m.pat[p]
AtEnd(m, p) == p > Len(m.pat)
Char(m, s) == m.src[s + 1]
End(m) == Len(m.src)
singlematch(m, s, p) == s < End(m) /\ Char(m, s) \in Item(m, p).set

(* What a branch of match returns: where the match ends, and the MatchState. *)
Return(m, res) == [res |-> res, ms |-> m]
Failed(r) == r.res = NULL

check_capture(m, l) == l <= m.level /\ m.capture[l].len # CAP_UNFINISHED
Unfinished(m) == {l \in 1..m.level : m.capture[l].len = CAP_UNFINISHED}

RECURSIVE Balanced(_, _, _, _)
Balanced(m, s, p, cont) ==
    IF s >= End(m) THEN NULL
    ELSE IF Char(m, s) = Item(m, p).close
    THEN IF cont = 1 THEN s + 1 ELSE Balanced(m, s + 1, p, cont - 1)
    ELSE Balanced(m, s + 1, p, IF Char(m, s) = Item(m, p).open THEN cont + 1 ELSE cont)

matchbalance(m, s, p) ==
    IF s < End(m) /\ (s < End(m) => Char(m, s) = Item(m, p).open) THEN Balanced(m, s + 1, p, 1) ELSE NULL

(* The character before the string and the one after it are '\0'. *)
frontier(m, s, p) ==
    /\ (IF s = 0 THEN NUL ELSE Char(m, s - 1)) \notin Item(m, p).set
    /\ (IF s = End(m) THEN NUL ELSE Char(m, s)) \in Item(m, p).set

match_capture(m, s, l) ==
    LET c == m.capture[l]
    IN  IF c.len >= 0 /\ c.len <= End(m) - s
           /\ SubSeq(m.src, c.init + 1, c.init + c.len) = SubSeq(m.src, s + 1, s + c.len)
        THEN s + c.len ELSE NULL

Expand(m, s, p) == Max({i \in 0..(End(m) - s) : \A j \in 0..(i - 1) : singlematch(m, s + j, p)})

UndoStart(r) == IF Failed(r) THEN [r EXCEPT !.ms.level = @ - 1] ELSE r

UndoEnd_Not(r, l) == r
UndoEnd(r, l) == IF Failed(r) THEN [r EXCEPT !.ms.capture[l].len = CAP_UNFINISHED] ELSE r

RECURSIVE match(_, _, _), MaxExpand(_, _, _, _), min_expand(_, _, _)

MaxExpand(m, s, p, i) ==
    LET r == match(m, s + i, p + 1)
    IN  IF Failed(r) /\ i > 0 THEN MaxExpand(r.ms, s, p, i - 1) ELSE r

max_expand(m, s, p) == MaxExpand(m, s, p, Expand(m, s, p))

min_expand(m, s, p) ==
    LET r == match(m, s, p + 1)
    IN  IF Failed(r) /\ singlematch(m, s, p) THEN min_expand(r.ms, s + 1, p) ELSE r

start_capture(m, s, p, what) ==
    IF m.level >= LUA_MAXCAPTURES THEN Return(m, Raised)
    ELSE UndoStart(match([m EXCEPT !.level = @ + 1, !.capture[m.level + 1] = [init |-> s, len |-> what]],
                         s, p))

end_capture_ToPosition(m, s, p) ==
    IF Unfinished(m) = {} THEN Return(m, Raised)
    ELSE LET l == Max(Unfinished(m))
         IN  UndoEnd(match([m EXCEPT !.capture[l].len = s], s, p), l)

end_capture(m, s, p) ==
    IF Unfinished(m) = {} THEN Return(m, Raised)
    ELSE LET l == Max(Unfinished(m))        \* capture_to_close
         IN  UndoEnd(match([m EXCEPT !.capture[l].len = s - m.capture[l].init], s, p), l)

optional(m, s, p) ==
    IF ~singlematch(m, s, p) THEN match(m, s, p + 1)
    ELSE LET r == match(m, s + 1, p + 1)
         IN  IF Failed(r) THEN match(r.ms, s, p + 1) ELSE r

Continue(m, s, p) == IF s = NULL THEN Return(m, NULL) ELSE match(m, s, p)

match(m, s, p) ==
    IF AtEnd(m, p) THEN Return(m, s)
    ELSE LET item == Item(m, p) IN
         CASE item.op = "open"     -> start_capture(m, s, p + 1, CAP_UNFINISHED)
           [] item.op = "position" -> start_capture(m, s, p + 1, CAP_POSITION)
           [] item.op = "close"    -> end_capture(m, s, p + 1)
           [] item.op = "balance"  -> Continue(m, matchbalance(m, s, p), p + 1)
           [] item.op = "frontier" -> IF frontier(m, s, p) THEN match(m, s, p + 1) ELSE Return(m, NULL)
           [] item.op = "back"     ->
                IF ~check_capture(m, item.n) THEN Return(m, Raised)
                ELSE Continue(m, match_capture(m, s, item.n), p + 1)
           [] item.op = "end"      -> Return(m, IF s = End(m) THEN s ELSE NULL)
           [] item.op = "one"      ->
                CASE item.rep = "?" -> optional(m, s, p)
                  [] item.rep = "*" -> max_expand(m, s, p)
                  [] item.rep = "+" ->
                        IF singlematch(m, s, p) THEN max_expand(m, s + 1, p) ELSE Return(m, NULL)
                  [] item.rep = "-" -> min_expand(m, s, p)
                  [] item.rep = ""  ->
                        IF singlematch(m, s, p) THEN match(m, s + 1, p + 1) ELSE Return(m, NULL)

(* push_captures: the captures, or the whole match when there is none. *)
push_captures(m, from, to) ==
    IF m.level = 0 THEN <<[init |-> from, len |-> to - from]>> ELSE SubSeq(m.capture, 1, m.level)
Raises(r) == r.res = Raised \/ (r.res >= 0 /\ Unfinished(r.ms) # {})
-----------------------------------------------------------------------------
(* A search for a string without specials. *)

RECURSIVE lmemfind_From(_, _, _)
lmemfind_From(src, pat, s) ==
    IF s + Len(pat) > Len(src) THEN NULL
    ELSE IF src[s + 1] = pat[1] /\ SubSeq(src, s + 2, s + Len(pat)) = Tail(pat) THEN s
    ELSE lmemfind_From(src, pat, s + 1)

lmemfind_StopsEarly(src, pat) ==
    IF pat = <<>> THEN 0 ELSE lmemfind_From(Front(src), pat, 0)

lmemfind(src, pat) == IF pat = <<>> THEN 0 ELSE lmemfind_From(src, pat, 0)
-----------------------------------------------------------------------------
(* The library functions.  A step is one turn of their loops, or one call of gmatch_aux. *)

Running == call.status = "running"
Finish(status) == call' = [call EXCEPT !.status = status]
Try(s) == match([ms EXCEPT !.level = 0], s, 1)
Found(r, s) == found' = Append(found, [from |-> s, to |-> r.res, captures |-> push_captures(r.ms, s, r.res)])

Init ==
    \E fn \in {"find", "gmatch", "gsub"}, src \in Subjects, pat \in Patterns, anchor \in BOOLEAN,
       max_s \in Limits :
        /\ fn # "gsub" => max_s = Max(Limits)
        /\ fn = "gmatch" => ~anchor
        /\ \E init \in IF fn = "find" THEN 0..Len(src) ELSE {0} :
            /\ call = [fn |-> fn, anchor |-> anchor, max_s |-> max_s, init |-> init, status |-> "running"]
            /\ pos = init
        /\ ms = [src |-> src, pat |-> pat, level |-> 0,
                 capture |-> [l \in 1..LUA_MAXCAPTURES |-> [init |-> 0, len |-> 0]]]
        /\ found = <<>> /\ out = <<>>

(* string.find and string.match *)
str_find_aux ==
    /\ Running /\ call.fn = "find"
    /\ LET r == Try(pos) IN
        /\ ms' = r.ms
        /\ \/ /\ r.res >= 0 /\ ~Raises(r)
              /\ Found(r, pos) /\ Finish("done") /\ UNCHANGED pos
           \/ /\ Raises(r)
              /\ Finish("raised") /\ UNCHANGED <<pos, found>>
           \/ /\ Failed(r) /\ pos < End(ms) /\ ~call.anchor
              /\ pos' = pos + 1 /\ UNCHANGED <<call, found>>
           \/ /\ Failed(r) /\ (pos = End(ms) \/ call.anchor)
              /\ Finish("done") /\ UNCHANGED <<pos, found>>
    /\ UNCHANGED out

NextStart_One(s, e) == s + 1
NextStart(s, e) == IF e = s THEN e + 1 ELSE e

(* One turn of the loop of gmatch_aux; a match ends the call of the iterator. *)
gmatch_aux ==
    /\ Running /\ call.fn = "gmatch"
    /\ IF pos > End(ms) THEN Finish("done") /\ UNCHANGED <<pos, ms, found>>
       ELSE LET r == Try(pos) IN
            /\ ms' = r.ms
            /\ \/ /\ r.res >= 0 /\ ~Raises(r)
                  /\ Found(r, pos) /\ pos' = NextStart(pos, r.res) /\ UNCHANGED call
               \/ /\ Raises(r)
                  /\ Finish("raised") /\ UNCHANGED <<pos, found>>
               \/ /\ Failed(r)
                  /\ pos' = pos + 1 /\ UNCHANGED <<call, found>>
    /\ UNCHANGED out

(* The rest of a turn of str_gsub's loop, after a match that ends at e, or NULL. *)
Advance_SkipsEmpty(e, copied) ==
    IF e > pos THEN [pos |-> e, out |-> copied, stop |-> call.anchor]
    ELSE IF pos < End(ms)
    THEN [pos |-> pos + 1, stop |-> call.anchor,
          out |-> IF e = pos THEN copied ELSE Append(copied, <<pos, pos + 1>>)]
    ELSE [pos |-> pos, out |-> copied, stop |-> TRUE]

Advance_Stays(e, copied) ==
    IF e > pos THEN [pos |-> e, out |-> copied, stop |-> call.anchor]
    ELSE IF e = pos /\ pos < End(ms)
    THEN [pos |-> pos + 1, out |-> Append(copied, <<pos, pos + 1>>), stop |-> call.anchor]
    ELSE [pos |-> pos, out |-> copied, stop |-> pos = End(ms)]

Advance(e, copied) ==
    IF e > pos THEN [pos |-> e, out |-> copied, stop |-> call.anchor]
    ELSE IF pos < End(ms)
    THEN [pos |-> pos + 1, out |-> Append(copied, <<pos, pos + 1>>), stop |-> call.anchor]
    ELSE [pos |-> pos, out |-> copied, stop |-> TRUE]

(* After the loop: luaL_addlstring of what is left. *)
Rest(o, s) == Append(o, <<s, End(ms)>>)

(* The replacement is a function of the captures: its result takes the place of the match,
   false keeps the match, and anything else, or an error in it, ends the call. *)
str_gsub ==
    /\ Running /\ call.fn = "gsub"
    /\ IF Len(found) >= call.max_s
       THEN Finish("done") /\ out' = Rest(out, pos) /\ UNCHANGED <<pos, ms, found>>
       ELSE LET r == Try(pos) IN
            /\ ms' = r.ms
            /\ \/ /\ ~Failed(r)
                  /\ Finish("raised") /\ UNCHANGED <<pos, found, out>>
               \/ /\ ~Raises(r)
                  /\ IF Failed(r) THEN UNCHANGED found ELSE Found(r, pos)
                  /\ LET a == Advance(r.res, IF Failed(r) THEN out ELSE Append(out, <<pos, r.res>>))
                     IN  /\ pos' = a.pos
                         /\ IF a.stop THEN Finish("done") /\ out' = Rest(a.out, a.pos)
                            ELSE out' = a.out /\ UNCHANGED call

Next == str_find_aux \/ gmatch_aux \/ str_gsub

Spec == Init /\ [][Next]_vars
-----------------------------------------------------------------------------
(* Matches, captures and copies lie inside the string. *)
Captures == [init : 0..Max({Len(s) : s \in Subjects}), len : Int]
TypeOK ==
    /\ pos \in 0..(End(ms) + 1) /\ ms.level \in 0..LUA_MAXCAPTURES
    /\ \A i \in DOMAIN ms.capture : ms.capture[i] \in Captures
    /\ \A i \in DOMAIN found :
        LET f == found[i] IN
        /\ 0 <= f.from /\ f.from <= f.to /\ f.to <= End(ms)
        /\ \A j \in DOMAIN f.captures :
            LET c == f.captures[j] IN
            c.init >= f.from /\ c.init + (IF c.len = CAP_POSITION THEN 0 ELSE c.len) <= f.to

(* What a pattern means: all the ways it can match from s, best first, each with its
   captures: a longer repetition before a shorter one, or after it for "-".  Nothing is
   undone here.  Raised ends the list: the search never gets behind it. *)
RECURSIVE Ways(_, _, _, _, _)
Ways(src, pat, s, p, caps) ==
    LET here == IF s < Len(src) THEN {src[s + 1]} ELSE {}
        Then(t) == Ways(src, pat, t, p + 1, caps)
        item == pat[p]
        Long(t) == CHOOSE i \in t..Len(src) :
                     /\ \A j \in (t + 1)..i : src[j] \in item.set
                     /\ i = Len(src) \/ src[i + 1] \notin item.set
        Each(ts) == FlattenSeq([i \in DOMAIN ts |-> Then(ts[i])])
        Up(a, b) == [i \in 1..(b - a + 1) |-> a + i - 1]
        open == {l \in DOMAIN caps : caps[l].len = CAP_UNFINISHED}
        depth(t) == Cardinality({j \in (s + 1)..t : src[j] = item.open})
                    - Cardinality({j \in (s + 1)..t : src[j] = item.close})
        ends == {t \in (s + 1)..Len(src) : src[t] = item.close /\ depth(t) = 0}
    IN  IF p > Len(pat) THEN <<[to |-> s, caps |-> caps]>>
        ELSE CASE item.op \in {"open", "position"} ->
                    IF Len(caps) >= LUA_MAXCAPTURES THEN <<[to |-> Raised, caps |-> <<>>]>>
                    ELSE Ways(src, pat, s, p + 1,
                              Append(caps, [init |-> s, len |-> IF item.op = "open" THEN CAP_UNFINISHED
                                                                ELSE CAP_POSITION]))
               [] item.op = "close" ->
                    IF open = {} THEN <<[to |-> Raised, caps |-> <<>>]>>
                    ELSE Ways(src, pat, s, p + 1, [caps EXCEPT ![Max(open)].len = s - caps[Max(open)].init])
               [] item.op = "balance" ->
                    IF item.open \in here /\ ends # {} THEN Then(Min(ends)) ELSE <<>>
               [] item.op = "frontier" ->
                    IF (<<NUL>> \o src)[s + 1] \notin item.set /\ Append(src, NUL)[s + 1] \in item.set
                    THEN Then(s) ELSE <<>>
               [] item.op = "back" ->
                    IF item.n \notin DOMAIN caps \/ item.n \in open
                    THEN <<[to |-> Raised, caps |-> <<>>]>>
                    ELSE LET c == caps[item.n] IN
                         IF c.len >= 0 /\ s + c.len <= Len(src)
                            /\ \A j \in 1..c.len : src[s + j] = src[c.init + j]
                         THEN Then(s + c.len) ELSE <<>>
               [] item.op = "end" -> IF s = Len(src) THEN <<[to |-> s, caps |-> caps]>> ELSE <<>>
               [] item.op = "one" ->
                    LET one == here \cap item.set # {}
                        some == IF one THEN s + 1 ELSE s
                    IN  CASE item.rep = ""  -> Each(Up(s + 1, some))
                          [] item.rep = "?" -> Each(Reverse(Up(s, some)))
                          [] item.rep = "*" -> Each(Reverse(Up(s, Long(s))))
                          [] item.rep = "+" -> IF one THEN Each(Reverse(Up(s + 1, Long(s)))) ELSE <<>>
                          [] item.rep = "-" -> Each(Up(s, Long(s)))

Best(src, pat, s) ==
    LET ways == Ways(src, pat, s, 1, <<>>) IN IF ways = <<>> THEN [to |-> NULL, caps |-> <<>>] ELSE ways[1]

(* match finds the best way to match there is, with its captures, whatever branches it
   has tried and undone before; and a failure leaves no capture behind. *)
MatchIsBest ==
    LET r == Try(pos)
        best == Best(ms.src, ms.pat, pos)
    IN  Running /\ pos <= End(ms) =>
            /\ r.res = best.to
            /\ r.res >= 0 => SubSeq(r.ms.capture, 1, r.ms.level) = best.caps
            /\ Failed(r) => r.ms.level = 0

(* The result of gsub stands for the whole subject: every character is copied once or
   lies in one match, in order, and what has been built stands for what has been read. *)
Joined(pieces, from, to) ==
    /\ \A i \in DOMAIN pieces : pieces[i][1] = IF i = 1 THEN from ELSE pieces[i - 1][2]
    /\ to = IF pieces = <<>> THEN from ELSE Last(pieces)[2]
GsubKeepsTheRest ==
    call.fn = "gsub" => Joined(out, 0, IF call.status = "done" THEN End(ms) ELSE pos)

(* gmatch and gsub without a limit find the matches of a left-to-right search that goes
   on where a match has ended, one character later when the match was empty. *)
RECURSIVE LeftToRight(_)
LeftToRight(s) ==
    IF s > End(ms) THEN <<>>
    ELSE LET b == Best(ms.src, ms.pat, s)
         IN  IF b.to = NULL THEN LeftToRight(s + 1)
             ELSE <<<<s, b.to>>>> \o LeftToRight(IF b.to = s THEN s + 1 ELSE b.to)

IteratesLeftToRight ==
    call.status = "done" /\ (call.fn = "gsub" => ~call.anchor /\ Len(found) < call.max_s) /\ call.fn # "find"
        => [i \in DOMAIN found |-> <<found[i].from, found[i].to>>] = LeftToRight(0)

(* find without special characters, which goes to lmemfind, and find with a pattern of
   the same characters give the same place. *)
Plain == \A p \in DOMAIN ms.pat : ms.pat[p].op = "one" /\ ms.pat[p].rep = "" /\ Cardinality(ms.pat[p].set) = 1
PlainFindsTheSame ==
    call.fn = "find" /\ call.status = "done" /\ ~call.anchor /\ Plain =>
        LET at == lmemfind(SubSeq(ms.src, call.init + 1, End(ms)),
                           [p \in DOMAIN ms.pat |-> CHOOSE c \in ms.pat[p].set : TRUE])
        IN  IF at = NULL THEN found = <<>> ELSE found # <<>> /\ found[1].from = call.init + at

(* A search that goes on has moved on, also when a match is empty: with TypeOK, which
   keeps it inside the string, every search ends. *)
MovesOn == call'.status = "running" => pos' > pos
SearchMovesOn == [][MovesOn]_vars

(* One search finds the best match, or the place the plain search finds. *)
SearchesSound == TypeOK /\ MatchIsBest /\ PlainFindsTheSame

(* gmatch and gsub go over the subject from left to right and lose none of it. *)
IterationsSound == GsubKeepsTheRest /\ IteratesLeftToRight
=============================================================================
