--------------------------- MODULE MCLeasedQueue ---------------------------
(***************************************************************************)
(* LeasedQueue on small sets: one machine and every tool                    *)
(* (MCLeasedQueue.cfg), and a machine with a service and the tools through  *)
(* which resources change hands (MCLeasedScopes.cfg).                       *)
(***************************************************************************)
EXTENDS LeasedQueue

CONSTANTS h1, s1

NoParent == [s \in {} |-> h1]
OneParent == s1 :> h1

\* Processes and requesters are interchangeable.
Interchangeable == Permutations(Procs) \cup Permutations(Requesters)
=============================================================================
