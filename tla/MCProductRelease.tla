-------------------------- MODULE MCProductRelease --------------------------
(***************************************************************************)
(* ProductRelease with its three stages, each on a target of its own.       *)
(***************************************************************************)
EXTENDS ProductRelease

ThreeStages == {Stages[i] : i \in 1..3}
OwnTarget == [d \in ThreeStages |-> d]
=============================================================================
