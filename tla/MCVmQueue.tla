----------------------------- MODULE MCVmQueue -----------------------------
(* A host with two services and three requesters. *)
EXTENDS VmQueue

CONSTANTS h1, s1, s2

MCParent == s1 :> h1 @@ s2 :> h1
=============================================================================
