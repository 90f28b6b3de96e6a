---------------------------- MODULE LeasedQueue ----------------------------
(***************************************************************************)
(* The leased queue of RemoteX (plugins/remotex/src/queue_leases.py): the   *)
(* tools through which sessions use the queue of VmQueue.                   *)
(*                                                                         *)
(* Several MCP server processes and task workers share three kinds of       *)
(* files: the queue (one lock, held for one atomic section), the leases     *)
(* (one lock, taken before the queue's) and one operation lock per          *)
(* resource, held across several sections.  A step of this module is one    *)
(* section under the innermost lock.  Between two sections of one call any  *)
(* other process may run, and the call may end: its process dies, a file    *)
(* cannot be written, or a lock stays busy for LOCK_TIMEOUT_SECONDS.        *)
(*                                                                         *)
(* Time is a lease that is live, or not any more.                           *)
(***************************************************************************)
EXTENDS VmQueue

CONSTANTS
    Procs,        \* the processes that run the tools
    Ops,          \* the tools they run
    NoProc        \* the holder of a free lock

\* "renew" is also queue_heartbeat, which differs in its event name.  "operate"
\* is leased_owner_operation, around every use of a machine.
AllOps == {"status", "request", "cancel", "acquire", "claim", "renew", "recover",
           "release", "operate"}

ASSUME ProcAssumption == NoProc \notin Procs /\ Ops \subseteq AllOps

VARIABLES
    lease,        \* lease[r]: the lease record of r, and whether it is still live
    opLock,       \* opLock[r]: the process holding the operation lock of r
    leaseLock,    \* the process holding the lease file's lock between two writes
    pc,           \* pc[p]: the next section of the call p runs
    call          \* call[p]: the call p runs

leaseVars == <<lease, opLock, leaseLock, pc, call>>
vars == <<owner, waiters, lease, opLock, leaseLock, pc, call>>

NoLease == [by |-> None, live |-> FALSE]

\* The calls that keep the operation lock after they expired an old lease.
Holding == {"acquire", "claim", "renew", "operate"}

\* active: the requester of the live lease found by _expire_locked, or None.
NoCall == [op |-> "none", res |-> None, req |-> None, active |-> None]
Calls == [op : AllOps, res : Resources, req : Requesters,
          active : Requesters \cup {None}]

Sections == {"agree", "expire", "pop", "stale", "queue", "inspect", "claim",
             "own", "grant", "lease", "rollback", "release", "clear", "body"}

(***************************************************************************)
(* Control                                                                 *)
(***************************************************************************)
Goto(p, section) == pc' = [pc EXCEPT ![p] = section]

Unlocked(p) ==
    [r \in Resources |-> IF opLock[r] = p THEN NoProc ELSE opLock[r]]

\* The call ends, normally or with an error, and its locks are released.
Return(p) ==
    /\ Goto(p, "idle")
    /\ call' = [call EXCEPT ![p] = NoCall]
    /\ opLock' = Unlocked(p)

\* Where a call continues once old leases are dealt with.
AfterExpire(op) ==
    IF op \in {"acquire", "claim"} THEN "claim"
    ELSE IF op \in {"renew", "operate"} THEN "own"
    ELSE IF op \in {"request", "cancel"} THEN "queue"
    ELSE "release"

\* _expire_locked returned; holder is the requester of the live lease or None.
\* _expire() and queue_recover_stale() release the operation lock here.
Expired(p, holder) ==
    IF call[p].op \in {"status", "recover"}
    THEN Return(p)
    ELSE /\ Goto(p, AfterExpire(call[p].op))
         /\ call' = [call EXCEPT ![p].active = holder]
         /\ opLock' = IF call[p].op \in Holding THEN opLock ELSE Unlocked(p)

FirstSection(op) ==
    IF op = "acquire" THEN "agree" ELSE IF op = "recover" THEN "stale" ELSE "expire"

\* A tool is called.  Every tool first takes the operation lock of its resource;
\* nothing is read before.
Begin(p, op, r, q) ==
    /\ pc[p] = "idle"
    /\ opLock[r] = NoProc
    /\ opLock' = [opLock EXCEPT ![r] = p]
    /\ call' = [call EXCEPT ![p] = [op |-> op, res |-> r, req |-> q, active |-> None]]
    /\ Goto(p, FirstSection(op))
    /\ UNCHANGED <<owner, waiters, lease, leaseLock>>

(***************************************************************************)
(* Leases                                                                  *)
(***************************************************************************)
\* queue_acquire() refuses to go on when owner and lease disagree.
Agree(p) ==
    /\ pc[p] = "agree"
    /\ leaseLock = NoProc
    /\ LET r == call[p].res
       IN  IF lease[r].by \notin {None, owner[r]}
           THEN Return(p)
           ELSE Goto(p, "expire") /\ UNCHANGED <<call, opLock>>
    /\ UNCHANGED <<owner, waiters, lease, leaseLock>>

\* Bug: whoever owns the resource loses it when any lease of it runs out.
ExpireAnyOwner(p) ==
    /\ pc[p] = "expire"
    /\ leaseLock = NoProc
    /\ LET r == call[p].res
       IN  IF lease[r].by = None \/ lease[r].live
           THEN /\ Expired(p, lease[r].by)
                /\ UNCHANGED <<owner, waiters, leaseLock>>
           ELSE /\ owner' = [owner EXCEPT ![r] = None]
                /\ leaseLock' = p
                /\ Goto(p, "pop")
                /\ UNCHANGED <<waiters, call, opLock>>
    /\ UNCHANGED lease

\* Bug: an expired lease is dropped and its owner stays.
ExpireLeaseOnly(p) ==
    /\ pc[p] = "expire"
    /\ leaseLock = NoProc
    /\ IF lease[call[p].res].by = None \/ lease[call[p].res].live
       THEN /\ Expired(p, lease[call[p].res].by)
            /\ UNCHANGED leaseLock
       ELSE /\ leaseLock' = p
            /\ Goto(p, "pop")
            /\ UNCHANGED <<call, opLock>>
    /\ UNCHANGED <<owner, waiters, lease>>

\* _expire_locked(), up to the queue file's write: an expired lease vacates the
\* resource if its requester still owns it.  The lease file stays locked until
\* Pop has written it.
Expire(p) ==
    /\ pc[p] = "expire"
    /\ leaseLock = NoProc
    /\ LET r == call[p].res
       IN  IF lease[r].by = None \/ lease[r].live
           THEN /\ Expired(p, lease[r].by)
                /\ UNCHANGED <<owner, waiters, leaseLock>>
           ELSE /\ Vacate(r, lease[r].by)
                /\ leaseLock' = p
                /\ Goto(p, "pop")
                /\ UNCHANGED <<call, opLock>>
    /\ UNCHANGED lease

\* queue_recover_stale(), up to the queue file's write: only an expired lease
\* of the present owner is recovered.
Stale(p) ==
    /\ pc[p] = "stale"
    /\ leaseLock = NoProc
    /\ LET r == call[p].res
       IN  IF lease[r].by = None \/ lease[r].live \/ owner[r] # lease[r].by
           THEN /\ Return(p)
                /\ UNCHANGED <<owner, waiters, leaseLock>>
           ELSE /\ Vacate(r, lease[r].by)
                /\ leaseLock' = p
                /\ Goto(p, "pop")
                /\ UNCHANGED <<call, opLock>>
    /\ UNCHANGED lease

\* The lease file's write of Expire and Stale.
Pop(p) ==
    /\ pc[p] = "pop"
    /\ lease' = [lease EXCEPT ![call[p].res] = NoLease]
    /\ leaseLock' = NoProc
    /\ Expired(p, None)
    /\ UNCHANGED <<owner, waiters>>

\* _set_lease().
SetLease(p) ==
    /\ pc[p] \in {"grant", "lease"}
    /\ leaseLock = NoProc
    /\ lease' = [lease EXCEPT ![call[p].res] = [by |-> call[p].req, live |-> TRUE]]
    /\ Return(p)
    /\ UNCHANGED <<owner, waiters, leaseLock>>

\* _set_lease() raises ToolError in queue_acquire() after a new claim.
GrantFails(p) ==
    /\ pc[p] = "grant"
    /\ Goto(p, "rollback")
    /\ UNCHANGED <<owner, waiters, lease, opLock, leaseLock, call>>

\* Bug: the rolled back requester goes to the end of the line.
RollbackToTheEnd(p) ==
    /\ pc[p] = "rollback"
    /\ LET r == call[p].res
           q == call[p].req
       IN  IF owner[r] = q
           THEN /\ owner' = [owner EXCEPT ![r] = None]
                /\ waiters' = [waiters EXCEPT ![r] = Append(@, q)]
           ELSE UNCHANGED queueVars
    /\ Return(p)
    /\ UNCHANGED <<lease, leaseLock>>

\* queue_acquire() undoes the claim and raises again.
Rollback(p) ==
    /\ pc[p] = "rollback"
    /\ Requeue(call[p].res, call[p].req)
    /\ Return(p)
    /\ UNCHANGED <<lease, leaseLock>>

\* _clear_lease(), the last section of queue_release(), without the operation lock.
ClearLease(p) ==
    /\ pc[p] = "clear"
    /\ leaseLock = NoProc
    /\ lease' = IF lease[call[p].res].by = call[p].req
                THEN [lease EXCEPT ![call[p].res] = NoLease]
                ELSE lease
    /\ Return(p)
    /\ UNCHANGED <<owner, waiters, leaseLock>>

(***************************************************************************)
(* Queue                                                                   *)
(***************************************************************************)
\* vm_queue.claim() in queue_claim() and queue_acquire().  queue_claim() records
\* a lease whenever the requester owns the resource now, queue_acquire() only
\* if no live lease was found.
ClaimSection(p) ==
    /\ pc[p] = "claim"
    /\ LET c == call[p]
           new == MayTake(c.res, c.req)
           owned == owner[c.res] = c.req
       IN  /\ Claim(c.res, c.req)
           /\ IF (new \/ owned) /\ (c.op = "claim" \/ c.active = None)
              THEN /\ Goto(p, IF new /\ c.op = "acquire" THEN "grant" ELSE "lease")
                   /\ UNCHANGED <<call, opLock>>
              ELSE Return(p)
    /\ UNCHANGED <<lease, leaseLock>>

\* vm_queue.request() and vm_queue.cancel(), outside the operation lock.
QueueSection(p) ==
    /\ pc[p] = "queue"
    /\ LET c == call[p]
       IN  IF c.op = "cancel" /\ owner[c.res] = c.req
           THEN Return(p) /\ UNCHANGED queueVars
           ELSE /\ \/ c.op = "request" /\ Request(c.res, c.req)
                   \/ c.op = "cancel" /\ Cancel(c.res, c.req)
                /\ Goto(p, "inspect")
                /\ UNCHANGED <<call, opLock>>
    /\ UNCHANGED <<lease, leaseLock>>

\* The trailing inspect_resource() of queue_request() and queue_cancel(), which
\* expires once more under the operation lock.
Inspect(p) ==
    /\ pc[p] = "inspect"
    /\ opLock[call[p].res] = NoProc
    /\ opLock' = [opLock EXCEPT ![call[p].res] = p]
    /\ call' = [call EXCEPT ![p].op = "status"]
    /\ Goto(p, "expire")
    /\ UNCHANGED <<owner, waiters, lease, leaseLock>>

\* vm_queue.release(), one section under the operation lock and the queue's.
ReleaseSection(p) ==
    /\ pc[p] = "release"
    /\ opLock[call[p].res] = NoProc
    /\ LET c == call[p]
       IN  IF owner[c.res] \in {c.req, None}
           THEN /\ Release(c.res, c.req)
                /\ Goto(p, "clear")
                /\ UNCHANGED <<call, opLock>>
           ELSE Return(p) /\ UNCHANGED queueVars
    /\ UNCHANGED <<lease, leaseLock>>

\* Bug: the operation lock is let go once the owner is checked.
CheckThenUnlock(p) ==
    /\ pc[p] = "own"
    /\ LET c == call[p]
       IN  IF owner[c.res] = c.req /\ c.active \in {None, c.req}
           THEN /\ Goto(p, IF c.op = "renew" THEN "lease" ELSE "body")
                /\ opLock' = Unlocked(p)
                /\ UNCHANGED call
           ELSE Return(p)
    /\ UNCHANGED <<owner, waiters, lease, leaseLock>>

\* _ORIGINAL_REQUIRE_OWNER() and the comparison with the live lease, in
\* queue_renew(), queue_heartbeat() and leased_owner_operation().
CheckOwner(p) ==
    /\ pc[p] = "own"
    /\ LET c == call[p]
       IN  IF owner[c.res] = c.req /\ c.active \in {None, c.req}
           THEN /\ Goto(p, IF c.op = "renew" THEN "lease" ELSE "body")
                /\ UNCHANGED <<call, opLock>>
           ELSE Return(p)
    /\ UNCHANGED <<owner, waiters, lease, leaseLock>>

\* The body of leased_owner_operation ends, and with it the context.
EndBody(p) ==
    /\ pc[p] = "body"
    /\ Return(p)
    /\ UNCHANGED <<owner, waiters, lease, leaseLock>>

(***************************************************************************)
(* Specification                                                           *)
(***************************************************************************)
\* A process dies, or a ToolError nobody catches ends its call.
Interrupt(p) ==
    /\ pc[p] # "idle"
    /\ Return(p)
    /\ leaseLock' = IF leaseLock = p THEN NoProc ELSE leaseLock
    /\ UNCHANGED <<owner, waiters, lease>>

\* A lease reaches its expiresAt.
Tick(r) ==
    /\ lease[r].live
    /\ lease' = [lease EXCEPT ![r].live = FALSE]
    /\ UNCHANGED <<owner, waiters, opLock, leaseLock, pc, call>>

Init ==
    /\ QueueInit
    /\ lease = [r \in Resources |-> NoLease]
    /\ opLock = [r \in Resources |-> NoProc]
    /\ leaseLock = NoProc
    /\ pc = [p \in Procs |-> "idle"]
    /\ call = [p \in Procs |-> NoCall]

Section(p) ==
    \/ Agree(p)
    \/ Expire(p)
    \/ Stale(p)
    \/ Pop(p)
    \/ SetLease(p)
    \/ GrantFails(p)
    \/ Rollback(p)
    \/ ClearLease(p)
    \/ ClaimSection(p)
    \/ QueueSection(p)
    \/ Inspect(p)
    \/ ReleaseSection(p)
    \/ CheckOwner(p)
    \/ EndBody(p)

Called(p) == \E op \in Ops, r \in Resources, q \in Requesters : Begin(p, op, r, q)

\* Steps of processes that stay alive.
QuietNext ==
    \/ \E p \in Procs : Called(p) \/ Section(p)
    \/ \E r \in Resources : Tick(r)

Next == QuietNext \/ \E p \in Procs : Interrupt(p)

Spec == Init /\ [][Next]_vars

QuietSpec == Init /\ [][QuietNext]_vars

\* A call that is running goes on, leases run out, and for every resource
\* somebody retries queue_acquire(), as its nextAction "wait-and-retry-acquire"
\* tells every waiter to.  Calls are cut short finitely often only.
Retry(r) == \E p \in Procs, q \in Requesters : Begin(p, "acquire", r, q)

FairSpec ==
    /\ Spec
    /\ <>[][QuietNext]_vars
    /\ \A p \in Procs : WF_vars(Section(p))
    /\ \A r \in Resources : WF_vars(Tick(r)) /\ SF_vars(Retry(r))

(***************************************************************************)
(* Lock discipline: what the proofs build on                               *)
(***************************************************************************)
\* The sections that run under the operation lock of the call's resource.
Guarded == {"agree", "expire", "pop", "stale", "claim", "own", "grant", "lease",
            "rollback", "body"}

LockDiscipline ==
    \A p \in Procs :
        /\ pc[p] # "idle" => call[p] \in Calls
        /\ pc[p] \in Guarded => opLock[call[p].res] = p

(***************************************************************************)
(* Properties                                                              *)
(***************************************************************************)
TypeOK ==
    /\ QueueTypeOK
    /\ lease \in [Resources -> [by : Requesters \cup {None}, live : BOOLEAN]]
    /\ opLock \in [Resources -> Procs \cup {NoProc}]
    /\ leaseLock \in Procs \cup {NoProc}
    /\ pc \in [Procs -> Sections \cup {"idle"}]
    /\ call \in [Procs -> Calls \cup {NoCall}]

\* An ownership check stays true until it has been acted upon: a process that
\* works on a resource, or is about to record a lease, works for its owner,
\* although the check was made in an earlier section, other sessions of the
\* same requester may release, and its lease may run out meanwhile.
CheckStaysTrue ==
    \A p \in Procs :
        pc[p] \in {"body", "lease", "grant", "rollback"} =>
            owner[call[p].res] = call[p].req

\* Ownership ends in two ways only: the owner itself lets go (its release, or
\* the rollback of its acquisition), or the owner's own lease has run out.  In
\* particular no lease left behind by a former owner, which a death between the
\* two writes of a call leaves in the file, costs the present owner its resource.
OwnershipEnds ==
    [][\A r \in Resources :
          owner[r] # None /\ owner'[r] # owner[r] =>
              \/ lease[r] = [by |-> owner[r], live |-> FALSE]
              \/ \E p \in Procs : /\ pc[p] \in {"release", "rollback"}
                                  /\ call[p].res = r
                                  /\ call[p].req = owner[r]]_vars

\* Nobody who keeps a live lease loses its place to a rival's tool call: if a
\* live lease changes hands in the file, the former holder no longer owned the
\* resource.
LeaseNotStolen ==
    [][\A r \in Resources :
          lease[r].live /\ owner[r] = lease[r].by =>
              lease'[r].by \in {lease[r].by, None}]_vars

\* A leased owner that falls silent cannot block its resource for ever: it loses
\* the resource, or one of its sessions calls a tool again.
SilentOwnerYields ==
    \A r \in Resources, q \in Requesters :
        owner[r] = q /\ lease[r].by = q
            ~> owner[r] # q \/ \E p \in Procs : call[p].req = q

\* "This owner predates queue leases" (_legacy_lease_view): a resource that was
\* acquired through these tools has a lease whenever no call is under way.
OwnersAreLeased ==
    (\A p \in Procs : pc[p] = "idle") =>
        \A r \in Resources : lease[r].by = owner[r] \/ owner[r] = None

\* The requester that works on a resource now.
Using ==
    [r \in Resources |->
        IF \E p \in Procs : pc[p] = "body" /\ call[p].res = r
        THEN call[CHOOSE p \in Procs : pc[p] = "body" /\ call[p].res = r].req
        ELSE None]

Access == INSTANCE ExclusiveAccess WITH using <- Using

\* The leased queue keeps machines and their services to one requester at a time
\* (ExclusiveAccess), whatever expires, is recovered or dies on the way.
ImplementsAccess == Access!AccessSpec

\* Every step of every tool, however many sections it has and wherever it is
\* cut short, does to the queue file what one operation of VmQueue does, or
\* nothing: so what VmQueue promises holds of the tools.
ImplementsQueue == QueueSpec
=============================================================================
