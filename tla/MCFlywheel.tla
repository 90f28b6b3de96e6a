----------------------------- MODULE MCFlywheel -----------------------------
(***************************************************************************)
(* Flywheel with two events, one of them in two files, and a broken file.   *)
(***************************************************************************)
EXTENDS Flywheel

CONSTANTS e1, e2, i1, i2, i3, i4

FileEvents == [i \in Inputs |-> CASE i \in {i1, i2} -> e1 [] i = i3 -> e2 [] OTHER -> None]
=============================================================================
