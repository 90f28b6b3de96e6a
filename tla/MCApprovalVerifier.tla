------------------------- MODULE MCApprovalVerifier -------------------------
(***************************************************************************)
(* ApprovalVerifier with two roles and one death.                          *)
(***************************************************************************)
EXTENDS ApprovalVerifier, TLC

\* The roles are interchangeable where all of them are required.
Interchangeable == Permutations(Roles)
=============================================================================
