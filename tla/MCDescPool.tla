----------------------------- MODULE MCDescPool -----------------------------
(***************************************************************************)
(* DescPool on four file protos: an enum file, a file that imports it, a   *)
(* file whose message collides with that one, and a file protobuf rejects. *)
(* A path holds nothing, bytes that do not parse, or any set of up to      *)
(* MaxFiles of the protos in any order, repetitions included.              *)
(***************************************************************************)
EXTENDS DescPool

CONSTANT MaxFiles

Proto(f, d, m, n, e, v) ==
    [file |-> f, deps |-> d, messages |-> m, nested |-> n, enums |-> e, valid |-> v]

MCProtos ==
    { Proto("types", {}, {"PhoneNumber"}, {}, {"PhoneType"}, TRUE),
      Proto("book", {"types"}, {"Person", "AddressBook"}, {"Person.Note"}, {}, TRUE),
      Proto("other", {}, {"Person"}, {}, {"Colour"}, TRUE),
      Proto("broken", {}, {"Bad"}, {}, {}, FALSE) }

MCContents ==
    {[kind |-> "missing", files |-> <<>>], [kind |-> "malformed", files |-> <<>>]}
    \cup {[kind |-> "set", files |-> fs] : fs \in UNION {[1..n -> MCProtos] : n \in 0..MaxFiles}}

=============================================================================
