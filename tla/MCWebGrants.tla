---------------------------- MODULE MCWebGrants ----------------------------
(***************************************************************************)
(* Startup requests and one for a write, with two executions of the write.  *)
(***************************************************************************)
EXTENDS WebGrants, TLC

\* Nothing tells two startup requests, or two executions, apart.
Alike == Permutations(Setups) \cup Permutations(Attempts)
=============================================================================
