--------------------------- MODULE ApprovalQuorum ---------------------------
(***************************************************************************)
(* What the verifier promises the product gate: a release goes forward only *)
(* at a moment at which every required role approves and no role objects.   *)
(* A role may change its mind at any time; what went forward stays so.      *)
(***************************************************************************)
CONSTANTS
    Roles,       \* the roles of the frozen snapshot
    Required,    \* those whose approval the request asks for
    Verdicts,    \* what a reply can say
    None

VARIABLES
    votes,       \* votes[r]: the verdict of r that counts, or None
    released     \* the gate was asked to go forward

Unanimous(v) ==
    /\ \A r \in Required : v[r] = "APPROVE"
    /\ \A r \in Roles : v[r] \in {"APPROVE", None}

Init ==
    /\ votes = [r \in Roles |-> None]
    /\ released = FALSE

Vote(r, d) ==
    /\ votes' = [votes EXCEPT ![r] = d]
    /\ UNCHANGED released

GoForward ==
    /\ Unanimous(votes)
    /\ released' = TRUE
    /\ UNCHANGED votes

Next == GoForward \/ \E r \in Roles, d \in Verdicts : Vote(r, d)

Spec == Init /\ [][Next]_<<votes, released>>
=============================================================================
