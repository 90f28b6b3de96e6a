-------------------------- MODULE ExclusiveAccess --------------------------
(***************************************************************************)
(* What the leased queue is for: a machine, or a service of it, is worked   *)
(* on by one requester at a time, and never a machine and one of its        *)
(* services at once.  LeasedQueue implements this specification.            *)
(***************************************************************************)
EXTENDS FiniteSets

CONSTANTS Requesters, Hosts, Services, Parent, None

VARIABLE using    \* using[r]: the requester working on r now, or None

\* The resources that may not be in use together with r.
Conflicting(r) ==
    IF r \in Services THEN {r, Parent[r]}
                      ELSE {r} \cup { s \in Services : Parent[s] = r }

Enter(r, q) ==
    /\ \A x \in Conflicting(r) : using[x] = None
    /\ using' = [using EXCEPT ![r] = q]

Exit(r) ==
    /\ using[r] # None
    /\ using' = [using EXCEPT ![r] = None]

AccessInit == using = [r \in Hosts \cup Services |-> None]

AccessNext ==
    \E r \in Hosts \cup Services :
        \/ \E q \in Requesters : Enter(r, q)
        \/ Exit(r)

AccessSpec == AccessInit /\ [][AccessNext]_using
=============================================================================
