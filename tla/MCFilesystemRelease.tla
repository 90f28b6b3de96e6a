------------------------ MODULE MCFilesystemRelease -------------------------
(***************************************************************************)
(* FilesystemRelease with three deployments on one target.                  *)
(***************************************************************************)
EXTENDS FilesystemRelease, TLC

CONSTANTS t1, d1, d2, d3

OneTarget == [d \in Deployments |-> t1]

\* The deployments are interchangeable.
Interchangeable == Permutations(Deployments)
=============================================================================
