------------------------------- MODULE WebSite -------------------------------
(***************************************************************************)
(* Sessions of RemoteX under a site grant (web_site_service.py over          *)
(* web_channel.py and web_approval.py) and the journal they share            *)
(* (WebJournal).  A session is one SiteService: its owner grants the site    *)
(* once, an agent executes actions through the browser worker, sensitive     *)
(* actions ask the owner again, and the page itself sends requests, which    *)
(* the worker has permitted one by one.  Before the first write the session  *)
(* reserves its origin in the journal; it gives the reservation back when    *)
(* its channel closes and nothing it sent is of unknown outcome.             *)
(*                                                                          *)
(* Threads: the tool calls, one thread per decision, one per confirmed       *)
(* action, the reader of the worker's pipe, and the hook that closing the    *)
(* channel runs.  The service lock makes the parts between two waits atomic. *)
(*                                                                          *)
(* Abstracted: nonces and digests (a decision is the owner's), the login,    *)
(* read-only requests and status calls, idempotency keys (an attempt stands  *)
(* for its key), clocks (a deadline is an alternative of the check).         *)
(***************************************************************************)
EXTENDS WebJournal

CONSTANTS
    Attempts,   \* identities of actions
    Acts,       \* the attempts that each session may execute
    Requests,   \* write requests of a page
    Asks,       \* the requests that the page of each session may send
    MaxFaults   \* failures of the audit log or of a journal write

ASSUME SiteAssumption ==
    /\ Acts \in [Sessions -> SUBSET Attempts] /\ Asks \in [Sessions -> SUBSET Requests]
    /\ MaxFaults \in Nat

VARIABLES
    svc,        \* per session: SiteService, Channel and worker
    faults

vars == <<journalVars, svc, faults>>

Kinds == {"read", "write", "sensitive"}

\* __init__ of SiteService and Channel; "none" before login.
NewService ==
    [state |-> "none", closed |-> FALSE, hook |-> FALSE, dead |-> FALSE,
     reserved |-> FALSE, unsure |-> FALSE, pending |-> None,
     op |-> None,                                \* holder of operation_lock
     line |-> None,                              \* the command the worker executes
     threads |-> {},                             \* _run not yet begun
     queued |-> {},                              \* executing, waiting for the channel
     att |-> [a \in Attempts |-> "none"], kind |-> [a \in Attempts |-> "read"],
     asked |-> FALSE,                            \* the site window has not decided yet
     prompt |-> [a \in Attempts |-> {}],         \* callbacks of each action's window to come
     net |-> [r \in Requests |-> "none"],        \* network_requests
     sent |-> {},                                \* history: actions the worker was permitted
     withdrawn |-> {}]                           \* history: actions the owner withdrew

Init == JournalInit /\ svc = [s \in Sessions |-> NewService] /\ faults = 0

(***************************************************************************)
(* What the checks and the closing of a session do.                         *)
(***************************************************************************)
\* _valid: not revoked, the channel available.  It fails as well once the
\* deadline has passed or the lease, the profile or the credential changed,
\* and then closes the session: wherever it is called, Close is an alternative.
Valid(n) == n.state # "revoked" /\ ~n.closed

\* A defect: the requests of the page are forgotten.
UncertainActionsOnly(n) == n.unsure \/ \E a \in Attempts : n.att[a] \in {"executing", "unknown"}

\* _closed: what keeps the reservation.
Uncertain(n) ==
    \/ n.unsure
    \/ \E r \in Requests : n.net[r] \in {"open", "unknown"}
    \/ \E a \in Attempts : n.att[a] \in {"executing", "unknown"}

Revoked(n) == [n EXCEPT !.state = "revoked"]

\* The session as _closed leaves it, its reservation aside.  The callbacks of
\* its windows, which are stopped, have nothing left to change.
Shut(n) == [Revoked(n) EXCEPT !.closed = TRUE, !.hook = FALSE, !.asked = FALSE,
                !.prompt = [a \in Attempts |-> {}],
                !.att = [a \in Attempts |-> IF n.att[a] = "awaiting" THEN "cancelled" ELSE n.att[a]]]

\* A defect: the reservation outlives its session.
ClosedWithoutResolve(s, n) == svc' = [svc EXCEPT ![s] = Shut(n)] /\ UNCHANGED <<pending, faults>>

\* _closed for a session in state n; the resolution of the reservation may
\* fail, and fails when the journal has no envelope.
ClosedHook(s, n) ==
    LET resolves == n.reserved /\ ~Uncertain(n)
    IN  \/ /\ resolves /\ version # 0 /\ ~Locked
           /\ svc' = [svc EXCEPT ![s] = [Shut(n) EXCEPT !.reserved = FALSE]]
           /\ pending' = pending \ {s} /\ UNCHANGED faults
        \/ /\ resolves /\ (version # 0 => faults < MaxFaults)
           /\ svc' = [svc EXCEPT ![s] = Shut(n)]
           /\ faults' = IF version = 0 THEN faults ELSE faults + 1
           /\ UNCHANGED pending
        \/ /\ ~resolves
           /\ svc' = [svc EXCEPT ![s] = Shut(n)] /\ UNCHANGED <<pending, faults>>

\* channel.close() by a thread that holds the service lock: the first call
\* runs _closed at once, a later one does nothing.
Close(s, n) ==
    IF n.closed
    THEN svc' = [svc EXCEPT ![s] = Revoked(n)] /\ UNCHANGED <<pending, faults>>
    ELSE ClosedHook(s, n)

\* The same while something is uncertain: the reservation stays.
CloseUncertain(s, n) ==
    svc' = [svc EXCEPT ![s] = IF n.closed THEN Revoked(n) ELSE Shut(n)] /\ UNCHANGED pending

\* The same because an audit record could not be written: _event.
CloseUnsure(s, n) ==
    /\ faults < MaxFaults /\ faults' = faults + 1
    /\ CloseUncertain(s, [n EXCEPT !.unsure = TRUE])

Put(s, n) == svc' = [svc EXCEPT ![s] = n] /\ UNCHANGED <<pending, faults>>

\* Everything of the journal but its entries.
KeepJournal == UNCHANGED <<key, version, receipt, review, drawn, lost, deaths, trusted, settledBy>>

Live(s) == svc[s].state # "none" /\ ~svc[s].dead

(***************************************************************************)
(* Login and the site grant.                                                *)
(***************************************************************************)
\* login(authorization_mode = site), require_site_protocol, begin: version 2
\* is required, and the site window is shown.
Login(s) ==
    /\ svc[s].state = "none" /\ key /\ version = 2 /\ ~Locked
    /\ Put(s, [svc[s] EXCEPT !.state = "pending", !.asked = TRUE])

\* _decision for the site; a refused decision revokes (_apply_decision).
SiteDecide(s) ==
    LET n == [svc[s] EXCEPT !.asked = FALSE]
    IN  /\ Live(s) /\ svc[s].asked
        /\ \/ Valid(n) /\ n.state = "pending" /\ Put(s, [n EXCEPT !.state = "active"])
           \/ Valid(n) /\ CloseUnsure(s, n)
           \/ Close(s, n)                        \* expired, consumed or no longer valid

\* revoke: the tool call, the site window closed, its review or grant expired.
Revoke(s) ==
    /\ Live(s) /\ svc[s].state # "revoked"
    /\ Close(s, Revoked(svc[s])) \/ CloseUnsure(s, Revoked(svc[s]))

\* The pipe ends or the supervisor stops the worker: Channel.close by another
\* thread, which runs _closed once it has the service lock.
ChannelLost(s) ==
    Live(s) /\ ~svc[s].closed /\ Put(s, [svc[s] EXCEPT !.closed = TRUE, !.hook = TRUE])

Hook(s) == Live(s) /\ svc[s].hook /\ ClosedHook(s, svc[s])

\* The supervisor process dies, and the worker with it (kill-on-close job).
Die(s) ==
    /\ Live(s) /\ deaths < MaxDeaths
    /\ svc' = [svc EXCEPT ![s] = [NewService EXCEPT !.state = "revoked", !.closed = TRUE, !.dead = TRUE,
           !.att = svc[s].att, !.net = svc[s].net, !.sent = svc[s].sent, !.reserved = svc[s].reserved]]
    /\ deaths' = deaths + 1
    /\ UNCHANGED <<key, version, pending, receipt, review, drawn, lost, trusted, settledBy, faults>>

(***************************************************************************)
(* Actions.                                                                 *)
(***************************************************************************)
\* execute up to the worker's preview: operation_lock is taken.
Execute(s) ==
    /\ Live(s) /\ svc[s].op = None /\ \E a \in Acts[s] : svc[s].att[a] = "none"
    /\ \/ /\ Valid(svc[s]) /\ svc[s].state = "active" /\ svc[s].pending = None
          /\ Put(s, [svc[s] EXCEPT !.op = "preview"])
       \/ Close(s, svc[s])

\* _worker: the preview is answered while the session is valid.
PreviewAnswered(s) ==
    /\ Live(s) /\ svc[s].op = "preview" /\ svc[s].line = None
    /\ Valid(svc[s])
    /\ Put(s, [svc[s] EXCEPT !.op = "record"])

\* The attempt is recorded, in a section of its own that does not look at the session
\* again: an ordinary action is run by this call, a sensitive one waits for the owner's
\* window.
Previewed(s, a, k) ==
    LET n == [svc[s] EXCEPT !.att[a] = IF k = "sensitive" THEN "awaiting" ELSE "confirmed", !.kind[a] = k]
    IN  /\ Live(s) /\ svc[s].op = "record" /\ svc[s].att[a] = "none"
        /\ \/ k # "sensitive" /\ Put(s, [n EXCEPT !.op = a, !.threads = @ \cup {a}])
           \/ /\ k = "sensitive"
              /\ \/ Put(s, [n EXCEPT !.op = None, !.pending = a, !.prompt[a] = {"decision", "close"}])
                 \/ Put(s, [n EXCEPT !.op = None, !.att[a] = "cancelled"])   \* no window
           \/ CloseUnsure(s, [svc[s] EXCEPT !.op = None])

\* The preview fails: refused by the worker, or the session is over.
PreviewFails(s) ==
    /\ Live(s) /\ svc[s].op = "preview"
    /\ \/ Put(s, [svc[s] EXCEPT !.op = None])
       \/ Close(s, [svc[s] EXCEPT !.op = None])

\* _decision for an action: it starts the thread of _run.  A decision that is
\* refused withdraws the action (_apply_decision calls on_revoke).
Confirm(s, a) ==
    LET n == [svc[s] EXCEPT !.prompt[a] = {"close"}]
    IN  /\ Live(s) /\ "decision" \in svc[s].prompt[a]
        /\ \/ /\ Valid(n) /\ n.state = "active" /\ n.att[a] = "awaiting"
              /\ \/ Put(s, [n EXCEPT !.att[a] = "confirmed", !.threads = @ \cup {a}])
                 \/ CloseUnsure(s, n)
           \/ Put(s, n)                          \* expired or consumed
           \/ Close(s, n)

\* A defect: an action that executes already is left alone.
CancelUnlessExecuting(s, a) ==
    LET n == [svc[s] EXCEPT !.prompt[a] = @ \ {"close"}, !.withdrawn = @ \cup {a}]
    IN  /\ Live(s) /\ "close" \in svc[s].prompt[a]
        /\ Put(s, [n EXCEPT !.att[a] = IF @ \in {"awaiting", "confirmed"} THEN "cancelled" ELSE @,
                            !.pending = IF @ = a THEN None ELSE @])

\* _cancel_action: the owner's window is closed, its helper ends, the review or
\* the ticket expires.
CancelAction(s, a) ==
    LET n == [svc[s] EXCEPT !.prompt[a] = @ \ {"close"}, !.withdrawn = @ \cup {a}]
    IN  /\ Live(s) /\ "close" \in svc[s].prompt[a]
        /\ IF n.att[a] = "executing"
           THEN IF n.state = "revoked" THEN Put(s, n) ELSE Close(s, Revoked(n)) \/ CloseUnsure(s, Revoked(n))
           ELSE Put(s, [n EXCEPT !.att[a] = IF @ \in {"awaiting", "confirmed"} THEN "cancelled" ELSE @,
                                 !.pending = IF @ = a THEN None ELSE @])

\* The call of execute that runs an ordinary action returns.
Returned(n, a) == [n EXCEPT !.op = IF @ = a THEN None ELSE @]

\* _reserve: at the first write of the session.
Reserves(s, n) == IF n.reserved THEN UNCHANGED pending ELSE CanReserve(s) /\ ~Locked /\ pending' = pending \cup {s}

\* _run up to the dispatch.  Its refusal clears pending_action, whoever's it is.
Run(s, a) ==
    LET n == [svc[s] EXCEPT !.threads = @ \ {a}]
        refused == Returned([n EXCEPT !.att[a] = "cancelled", !.pending = None], a)
        writes == n.kind[a] # "read"
        ready == Valid(n) /\ n.state = "active" /\ n.att[a] = "confirmed"
    IN  /\ Live(s) /\ a \in svc[s].threads
        /\ \/ /\ ready
              /\ IF writes THEN Reserves(s, n) ELSE UNCHANGED pending
              /\ svc' = [svc EXCEPT ![s] = [n EXCEPT !.att[a] = "executing", !.queued = @ \cup {a},
                            !.reserved = IF writes THEN TRUE ELSE @]]
              /\ UNCHANGED faults
           \/ /\ ready /\ faults < MaxFaults     \* reserved, but the dispatch is not recorded
              /\ IF writes THEN Reserves(s, n) ELSE UNCHANGED pending
              /\ svc' = [svc EXCEPT ![s] = Shut([refused EXCEPT !.unsure = TRUE, !.reserved = IF writes THEN TRUE ELSE @])]
              /\ faults' = faults + 1
           \/ Valid(n) /\ Put(s, refused)        \* not confirmed, ticket expired, or not reserved
           \/ Close(s, refused)

(***************************************************************************)
(* The worker.                                                              *)
(***************************************************************************)
\* Channel.request: one command at a time.
Send(s, a) ==
    /\ Live(s) /\ a \in svc[s].queued /\ svc[s].line = None /\ ~svc[s].closed
    /\ Put(s, [svc[s] EXCEPT !.queued = @ \ {a}, !.line = a])

\* SiteControl.execute asks _authorize for the action: once permitted it counts
\* as dispatched, whether or not the browser has performed it yet.
Dispatch(s, a) ==
    /\ Live(s) /\ svc[s].line = a /\ ~svc[s].closed /\ svc[s].kind[a] # "read"
    /\ a \notin svc[s].sent
    /\ \/ /\ Valid(svc[s]) /\ svc[s].state = "active" /\ svc[s].att[a] = "executing"
          /\ Put(s, [svc[s] EXCEPT !.sent = @ \cup {a}])
       \/ Close(s, svc[s])

\* _run after channel.request, once the answer is there or the channel closed.
\* Whatever closes the session here does so while the attempt is executing.
Answer(s, a) ==
    LET n == [svc[s] EXCEPT !.queued = @ \ {a}, !.line = IF @ = a THEN None ELSE @]
        Ended(st) == Returned([n EXCEPT !.att[a] = st, !.pending = IF @ = a THEN None ELSE @], a)
        bad == Ended(IF n.kind[a] = "read" THEN "failed" ELSE "unknown")
        answered == Valid(n) /\ svc[s].line = a
    IN  /\ Live(s) /\ n.att[a] = "executing"
        /\ \/ answered /\ (n.kind[a] = "read" \/ a \in n.sent) /\ Put(s, Ended("completed"))
           \/ answered /\ a \notin n.sent /\ Put(s, Ended("failed-before-dispatch"))
           \/ answered /\ CloseUnsure(s, bad)
           \/ /\ svc[s].line = a \/ svc[s].closed   \* lost, late, not valid, failed once dispatched
              /\ CloseUncertain(s, bad) /\ UNCHANGED faults

\* _authorize for a write request of the page: reserved before the reply.
NetAsk(s, r) ==
    /\ Live(s) /\ ~svc[s].closed /\ svc[s].net[r] = "none"
    /\ \/ /\ Valid(svc[s]) /\ svc[s].state = "active" /\ Reserves(s, svc[s])
          /\ svc' = [svc EXCEPT ![s].net[r] = "open", ![s].reserved = TRUE]
          /\ UNCHANGED faults
       \/ Close(s, svc[s])

\* _network_event: the request has finished, with a known outcome or not.
NetDone(s, r) ==
    /\ Live(s) /\ ~svc[s].closed /\ svc[s].net[r] = "open"
    /\ \/ Put(s, [svc[s] EXCEPT !.net[r] = "done"])
       \/ Close(s, [svc[s] EXCEPT !.net[r] = "unknown", !.unsure = TRUE])

SessionStep(s) ==
    /\ \/ Login(s) \/ SiteDecide(s) \/ Revoke(s) \/ ChannelLost(s) \/ Hook(s)
       \/ Execute(s) \/ PreviewAnswered(s) \/ PreviewFails(s)
       \/ \E a \in Acts[s] :
            \/ \E k \in Kinds : Previewed(s, a, k)
            \/ Confirm(s, a) \/ CancelAction(s, a) \/ Run(s, a)
            \/ Send(s, a) \/ Dispatch(s, a) \/ Answer(s, a)
       \/ \E r \in Asks[s] : NetAsk(s, r) \/ NetDone(s, r)
    /\ KeepJournal

\* _upgrade_web_idle: no session whose browser may still run.
Idle == \A s \in Sessions : svc[s].state = "none" \/ svc[s].closed

Ended == {s \in Sessions : svc[s].state # "none"}

Next ==
    \/ \E s \in Sessions : SessionStep(s) \/ Die(s)
    \/ JournalNext(Idle, Ended) /\ UNCHANGED <<svc, faults>>

Spec == Init /\ [][Next]_vars

(***************************************************************************)
(* Properties.                                                              *)
(***************************************************************************)
Outcomes == {"none", "awaiting", "confirmed", "executing", "completed",
             "failed-before-dispatch", "failed", "unknown", "cancelled"}

Services ==
    [state : {"none", "pending", "active", "revoked"},
     closed : BOOLEAN, hook : BOOLEAN, dead : BOOLEAN, reserved : BOOLEAN, unsure : BOOLEAN,
     pending : Attempts \cup {None}, op : Attempts \cup {None, "preview", "record"}, line : Attempts \cup {None},
     threads : SUBSET Attempts, queued : SUBSET Attempts,
     att : [Attempts -> Outcomes], kind : [Attempts -> Kinds], asked : BOOLEAN,
     prompt : [Attempts -> SUBSET {"decision", "close"}],
     net : [Requests -> {"none", "open", "done", "unknown"}],
     sent : SUBSET Attempts, withdrawn : SUBSET Attempts]

TypeOK ==
    /\ key \in BOOLEAN /\ version \in 0 .. 2 /\ pending \subseteq Sessions \cup Markers
    /\ receipt \in [Markers -> Receipts] /\ review \in [Processes -> Reviews]
    /\ drawn \in 0 .. MaxReviews /\ lost \in 0 .. MaxLosses /\ deaths \in 0 .. MaxDeaths
    /\ settledBy \subseteq Sessions /\ trusted \in BOOLEAN /\ faults \in 0 .. MaxFaults
    /\ svc \in [Sessions -> Services]

\* A write that may have reached the site and whose outcome is not known.
Unsettled(s) ==
    \/ \E a \in svc[s].sent : svc[s].att[a] # "completed"
    \/ \E r \in Requests : svc[s].net[r] \in {"open", "unknown"}

\* As long as a write of a session may have taken effect and nobody knows, no
\* other session holds the origin, or could reserve it, until an owner has
\* accepted the loss: whatever closes or dies in which order, and whatever
\* becomes of the envelope.
UnsettledFenced ==
    \A s, t \in Sessions :
        s # t /\ Origin[s] = Origin[t] /\ Unsettled(s) /\ s \notin settledBy =>
            ~CanReserve(t) /\ (svc[t].reserved => svc[t].closed)

\* While an envelope is missing that once was, or might have been, nothing is
\* reserved before an owner's review has been committed.
HistoryReviewed ==
    [][\A s \in Sessions : svc'[s].reserved /\ ~svc[s].reserved => trusted]_vars

\* An action that its owner withdrew, or let expire, is not permitted any more,
\* whether its thread has not begun, is waiting for the channel or for the worker.
WithdrawnStays ==
    [][\A s \in Sessions : svc'[s].sent \cap svc[s].withdrawn \subseteq svc[s].sent]_vars

\* A session that has closed with every outcome known has given its
\* reservation back, unless the journal could not be written.  (A read that
\* was lost counts as an outcome that is not known.)
ReservationReturned ==
    \A s \in Sessions :
        s \in pending /\ svc[s].closed /\ ~svc[s].hook /\ ~svc[s].dead /\ faults = 0 =>
            Uncertain(svc[s]) \/ \E a \in Attempts : svc[s].att[a] = "failed"

\* One action at a time.
OneAction ==
    \A s \in Sessions :
        Cardinality({a \in Attempts : svc[s].att[a] \in {"awaiting", "confirmed", "executing"}}) <= 1
=============================================================================
