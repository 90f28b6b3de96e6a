---------------------------- MODULE ReleaseOrder ----------------------------
(***************************************************************************)
(* What the deployments on one target promise together: a deployment goes   *)
(* live only over the release it was prepared on, and taking it back brings *)
(* back that very release.                                                  *)
(***************************************************************************)
CONSTANTS
    Deployments, Targets, None,
    TargetOf   \* the target a deployment goes to

VARIABLES
    live,      \* live[t]: the deployment that is active on t, or None
    prepared,  \* the deployments prepared so far
    under      \* under[d]: the deployment that was live when d was prepared

Init ==
    /\ live = [t \in Targets |-> None]
    /\ prepared = {}
    /\ under = [d \in Deployments |-> None]

Prepare(d) ==
    /\ d \notin prepared
    /\ prepared' = prepared \cup {d}
    /\ under' = [under EXCEPT ![d] = live[TargetOf[d]]]
    /\ UNCHANGED live

GoLive(d) ==
    /\ d \in prepared
    /\ live[TargetOf[d]] = under[d]
    /\ live' = [live EXCEPT ![TargetOf[d]] = d]
    /\ UNCHANGED <<prepared, under>>

TakeBack(d) ==
    /\ live[TargetOf[d]] = d
    /\ live' = [live EXCEPT ![TargetOf[d]] = under[d]]
    /\ UNCHANGED <<prepared, under>>

Next == \E d \in Deployments : Prepare(d) \/ GoLive(d) \/ TakeBack(d)

Spec == Init /\ [][Next]_<<live, prepared, under>>
=============================================================================
