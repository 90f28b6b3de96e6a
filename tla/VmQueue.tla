------------------------------ MODULE VmQueue ------------------------------
(***************************************************************************)
(* The cooperative FIFO queue of RemoteX (plugins/remotex/src/vm_queue.py). *)
(*                                                                         *)
(* One JSON file holds, for every resource, its owner and its waiters.     *)
(* Every function of vm_queue.py reads and rewrites the file inside        *)
(* _locked_state, so each is one atomic action here.  A resource without   *)
(* an entry in the file is one with no owner and no waiters.               *)
(*                                                                         *)
(* A resource is a host, or a service of a host ("HOST::service::NAME").   *)
(* A host and its services exclude each other.                             *)
(*                                                                         *)
(* The callers (queue_leases.py) decide when these actions happen; this    *)
(* module is what the queue promises whoever calls it.                     *)
(***************************************************************************)
EXTENDS Naturals, SequencesExt

CONSTANTS
    Requesters,   \* the requester identifiers, shared by sessions at will
    Hosts,        \* resources that are whole machines
    Services,     \* resources that are services of a machine
    Parent,       \* the host of each service: the part before "::service::"
    None          \* absent requester (JSON null)

ASSUME QueueAssumption ==
    /\ Hosts \cap Services = {}
    /\ Parent \in [Services -> Hosts]
    /\ None \notin Requesters

Resources == Hosts \cup Services

VARIABLES
    owner,        \* owner[r]: the requester that owns r, or None
    waiters       \* waiters[r]: the requesters queued for r, first in line first

queueVars == <<owner, waiters>>

(***************************************************************************)
(* Helpers                                                                 *)
(***************************************************************************)
Queued(r) == ToSet(waiters[r])

\* Bug: a waiting host request does not keep new services out.
ScopeBlockersIgnoringWaiters(r, waiting) ==
    IF r \in Services
    THEN { h \in {Parent[r]} : owner[h] # None }
    ELSE { s \in Services : Parent[s] = r /\ owner[s] # None }

\* _scope_blockers(state, r, waiting): the resources that exclude r now.
ScopeBlockers(r, waiting) ==
    IF r \in Services
    THEN { h \in {Parent[r]} : \/ owner[h] # None
                               \/ waiting /\ waiters[h] # <<>> }
    ELSE { s \in Services : Parent[s] = r /\ owner[s] # None }

\* Bug: an unowned resource goes to whoever asks.
MayTakeOutOfTurn(r, q) == owner[r] = None /\ ScopeBlockers(r, TRUE) = {}

\* The condition under which claim() hands r over to q.
MayTake(r, q) ==
    /\ owner[r] = None
    /\ ScopeBlockers(r, TRUE) = {}
    /\ waiters[r] = <<>> \/ Head(waiters[r]) = q

\* Bug: a requester that asks again waits twice.
JoinAgain(r, q) ==
    /\ waiters' = [waiters EXCEPT ![r] = Append(@, q)]
    /\ UNCHANGED owner

\* Append q to the waiters of r unless it already waits.
Join(r, q) ==
    /\ waiters' = IF q \in Queued(r)
                  THEN waiters
                  ELSE [waiters EXCEPT ![r] = Append(@, q)]
    /\ UNCHANGED owner

\* The waiters of r other than q (they hold no duplicates).
WaitersWithout(r, q) == [waiters EXCEPT ![r] = RemoveFirst(@, q)]

(***************************************************************************)
(* Operations                                                              *)
(***************************************************************************)
Request(r, q) ==
    IF owner[r] = q THEN UNCHANGED queueVars ELSE Join(r, q)

Claim(r, q) ==
    IF MayTake(r, q)
    THEN /\ owner' = [owner EXCEPT ![r] = q]
         /\ waiters' = WaitersWithout(r, q)
    ELSE IF owner[r] = q THEN UNCHANGED queueVars ELSE Join(r, q)

\* release() of an unowned resource returns "already-unowned" and writes
\* nothing; of somebody else's resource it raises.
Release(r, q) ==
    /\ owner[r] \in {q, None}
    /\ IF owner[r] = q
       THEN /\ owner' = [owner EXCEPT ![r] = None]
            /\ waiters' = WaitersWithout(r, q)
       ELSE UNCHANGED queueVars

\* cancel() raises for the owner, which must release instead.
Cancel(r, q) ==
    /\ owner[r] # q
    /\ waiters' = WaitersWithout(r, q)
    /\ UNCHANGED owner

\* An expired or stale lease of q gives the resource up; nobody is assigned.
Vacate(r, q) ==
    /\ owner' = IF owner[r] = q THEN [owner EXCEPT ![r] = None] ELSE owner
    /\ UNCHANGED waiters

\* queue_acquire() undoes its claim when the lease cannot be recorded: the
\* requester goes back to the first place in line.
Requeue(r, q) ==
    IF owner[r] = q
    THEN /\ owner' = [owner EXCEPT ![r] = None]
         /\ waiters' = [waiters EXCEPT ![r] = <<q>> \o @]
    ELSE UNCHANGED queueVars

(***************************************************************************)
(* Specification                                                           *)
(***************************************************************************)
QueueInit ==
    /\ owner = [r \in Resources |-> None]
    /\ waiters = [r \in Resources |-> <<>>]

QueueStep(r, q) ==
    \/ Request(r, q)
    \/ Claim(r, q)
    \/ Release(r, q)
    \/ Cancel(r, q)
    \/ Vacate(r, q)
    \/ Requeue(r, q)

QueueNext == \E r \in Resources, q \in Requesters : QueueStep(r, q)

QueueSpec == QueueInit /\ [][QueueNext]_queueVars

\* The callers' side of progress: the first waiter keeps retrying
\* ("wait-and-retry-acquire"), an owner lets go, by itself or because its lease
\* runs out, and the lease file does not stay unwritable for ever.
FirstClaims(r) == waiters[r] # <<>> /\ Claim(r, Head(waiters[r]))
OwnerLeaves(r) == owner[r] # None /\ Release(r, owner[r])

QueueFairness ==
    /\ \A r \in Resources : WF_queueVars(FirstClaims(r)) /\ WF_queueVars(OwnerLeaves(r))
    /\ <>[][\A r \in Resources : owner[r] \notin Queued(r)']_queueVars

FairQueueSpec == QueueSpec /\ QueueFairness

(***************************************************************************)
(* Properties                                                              *)
(***************************************************************************)
QueueTypeOK ==
    /\ owner \in [Resources -> Requesters \cup {None}]
    /\ waiters \in [Resources -> Seq(Requesters)]

\* No waiter twice in one line (checked by _load_state).
Distinct(s) == \A i, j \in DOMAIN s : s[i] = s[j] => i = j
WaitersDistinct == \A r \in Resources : Distinct(waiters[r])

\* The owner does not wait for what it owns (checked by _load_state).
OwnerNotWaiting == \A r \in Resources : owner[r] \notin Queued(r)

\* A host and one of its services are never owned at once (checked by
\* _load_state).
ScopesExclusive ==
    \A s \in Services : owner[s] = None \/ owner[Parent[s]] = None

\* _load_state refuses a file with a duplicate waiter, an owner that waits or
\* conflicting owners, and then every VM operation on the machine fails until
\* somebody edits the file.  No sequence of queue operations writes such a file.
StateLoadable ==
    /\ WaitersDistinct
    /\ OwnerNotWaiting
    /\ ScopesExclusive

Before(s, a, b) == \E i, j \in DOMAIN s : i < j /\ s[i] = a /\ s[j] = b
Ahead(r, a, b) == Before(waiters[r], a, b)

\* FIFO over the whole life of a line: once a waits ahead of b, b neither gets
\* in front of a nor becomes the owner while a still waits, whatever is
\* requested, cancelled, expired or rolled back in between.
NoOvertaking ==
    [][\A r \in Resources : \A a, b \in Requesters :
          Ahead(r, a, b) => /\ ~ Ahead(r, b, a)'
                            /\ a \in Queued(r)' => owner'[r] # b]_queueVars

\* No preemption: ownership never passes from one requester to another in one
\* step; it always returns to None first.
NoPreemption ==
    [][\A r \in Resources :
          owner[r] # None => owner'[r] \in {owner[r], None}]_queueVars

\* Host maintenance is not starved by its services: a waiting host request is
\* served, or given up, although services of the host come and go, because a
\* waiting host request keeps new services out.
HostServed ==
    \A h \in Hosts, q \in Requesters :
        q \in Queued(h) ~> q \notin Queued(h)
=============================================================================
