---------------------------- MODULE MCFileTools ----------------------------
(***************************************************************************)
(* Mixes of calls: two agents that read and edit; one that edits and two   *)
(* that read; two that create and one that reads.                          *)
(***************************************************************************)
EXTENDS FileTools, TLC

CONSTANTS r1, r2, r3

Three == {r1, r2, r3}

Only(kinds, new) == [kinds |-> kinds, writes |-> new]

Edits == r1 :> Only({"read", "edit"}, "c1") @@ r2 :> Only({"read", "edit"}, "c2")
         @@ r3 :> Only({}, Absent)
Reads == r1 :> Only({"edit"}, "c2") @@ r2 :> Only({"read"}, Absent)
         @@ r3 :> Only({"look"}, Absent)
Creates == r1 :> Only({"create"}, "c1") @@ r2 :> Only({"create"}, "c2")
           @@ r3 :> Only({"look"}, Absent)

AllMixes == {Edits, Reads, Creates}
=============================================================================
