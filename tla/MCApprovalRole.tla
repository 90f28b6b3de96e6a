--------------------------- MODULE MCApprovalRole ---------------------------
(***************************************************************************)
(* ApprovalRole on small sets: one server and a handler thread with two      *)
(* pages or two seconds, under fairness (MCApprovalLive.cfg), and larger     *)
(* instances without it: two handler threads that share page-state.json      *)
(* (MCApprovalRole.cfg) and two server processes (Servers = {m1, m2}).     *)
(***************************************************************************)
EXTENDS ApprovalRole, TLC

\* Handler threads, server processes and decisions are interchangeable.
Interchangeable ==
    Permutations(Posts) \cup Permutations(Verdicts) \cup Permutations(Servers)

\* A second page is opened before the clock ticks only: neither step is owed by
\* fairness, so that no behaviour is cut that liveness would have to look at.
OneBoundAtATime == clock = 0 \/ page[MaxPages].home = None
=============================================================================
