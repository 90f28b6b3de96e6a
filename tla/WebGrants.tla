------------------------------ MODULE WebGrants ------------------------------
(***************************************************************************)
(* Granular grants of a RemoteX web session (web_authorization.py,          *)
(* web_task_service.py): the agent proposes items, the owner decides in a    *)
(* window, and the worker asks for a permit before each request it forwards. *)
(* Before the login a proposal asks for startup resources and may replace an *)
(* earlier grant, whose unspent uses it carries over; after it, a proposal   *)
(* asks for a write to one object, which the recovery journal fences until   *)
(* its outcome was read back.                                                *)
(*                                                                           *)
(* Threads: the tool calls, one after the other; the thread that applies a   *)
(* decision; one thread per window, which revokes; the reader of the         *)
(* worker's pipe.  broker.lock is held from the check of a decision to its   *)
(* publication, across the journal's writes; a revocation never waits for    *)
(* it.  execute_lock is held by a call that executes or proposes.            *)
(*                                                                           *)
(* Abstracted: the contents of items (one item per grant, one source per     *)
(* replacement), nonces and digests (a decision is the owner's), read-only   *)
(* actions, the revisions of the startup protocol, clocks (a deadline may    *)
(* pass at any time), the records of the audit log.                          *)
(***************************************************************************)
EXTENDS Naturals, FiniteSets, FiniteSetsExt

CONSTANTS
    Requests,   \* proposals, by request_id; the grant of each bears the same name
    Setups,     \* those for startup resources
    Attempts,   \* executions of a write
    None,
    MaxUses,    \* bound on max_uses
    MaxActive   \* active grants at once: 4 in _active_count

ASSUME GrantsAssumption ==
    /\ Setups \subseteq Requests /\ None \notin Requests \cup Attempts
    /\ MaxUses \in Nat \ {0} /\ MaxActive \in Nat \ {0}

VARIABLES
    req,         \* per request: its state, fence, source, and the uses it asks for
    grant,       \* per request: the state of its grant and the uses left
    session,     \* phase of the worker, fences of the broker and the channel, setup_hold
    call,        \* the tool call in progress
    decision,    \* the thread that applies a decision
    window,      \* per request: its window
    att,         \* per attempt: its state, grant, fence and ticket
    confirm,     \* per attempt: its window
    executing, dispatched,
    journal,     \* attempts reserved in the recovery journal
    net,         \* the check the reader works on
    permits,     \* attempts with a permit that the worker has and has not used
    forwarded,   \* history: attempts whose write left the worker
    spent,       \* history: permits taken from each grant
    withdrawn    \* history: requests whose revocation is complete

vars == <<req, grant, session, call, decision, window, att, confirm, executing, dispatched,
          journal, net, permits, forwarded, spent, withdrawn>>
asked == <<req, grant, window, decision, withdrawn>>
acted == <<att, confirm, executing, dispatched, journal, permits, forwarded>>

Idle == [at |-> "idle", r |-> None, a |-> None]

Blank(r) == [state |-> "none", fence |-> FALSE, source |-> None, line |-> {r},
             uses |-> 0, timed |-> FALSE]
NoGrant == [state |-> "none", left |-> 0, approved |-> 0]

Init ==
    /\ req = [r \in Requests |-> Blank(r)]
    /\ grant = [r \in Requests |-> NoGrant]
    /\ session = [phase |-> "bootstrap", fenced |-> FALSE, closed |-> FALSE, hold |-> FALSE]
    /\ call = Idle /\ net = Idle
    /\ decision = [at |-> "idle", r |-> None, uses |-> 0]
    /\ window = [r \in Requests |-> "none"]
    /\ att = [a \in Attempts |-> [state |-> "none", of |-> None, fence |-> FALSE, ticket |-> "none"]]
    /\ confirm = [a \in Attempts |-> "none"]
    /\ executing = {} /\ dispatched = {} /\ journal = {} /\ permits = {}
    /\ forwarded = {} /\ withdrawn = {}
    /\ spent = [r \in Requests |-> 0]

(***************************************************************************)
(* What the checks look at.                                                 *)
(***************************************************************************)
\* broker.lock, and execute_lock.
Free == decision.at # "deciding"
ExecuteFree == call.at \in {"idle", "cancel"}

\* _grant and _valid, without the item.
Usable(r) == grant[r].state = "active" /\ ~req[r].fence /\ ~session.fenced
ActiveCount == Cardinality({r \in Requests : grant[r].state = "active" /\ ~req[r].fence})
Pending(r) == req[r].state = "pending" /\ ~req[r].fence
ReplacementPending == \E r \in Requests : Pending(r) /\ req[r].source # None

\* emergency_revoke: the channel closes afterwards.
Emergency == session' = [session EXCEPT !.fenced = TRUE]

(***************************************************************************)
(* Proposals.                                                               *)
(***************************************************************************)
\* ApprovalPrompt.start(): without a window the request is revoked.
Opens(r) == \E w \in {"open", "revoke"} : window' = [window EXCEPT ![r] = w]

\* Broker.request() without a source, and the window that opens.
Request(r) ==
    /\ call.at = "idle" /\ Free /\ ~session.fenced
    /\ req[r].state = "none"
    /\ session.phase = IF r \in Setups THEN "bootstrap" ELSE "discovery"
    /\ \A x \in Requests : ~Pending(x)
    /\ ActiveCount < MaxActive
    /\ \E n \in 1..MaxUses, t \in {FALSE, r \notin Setups} :
          req' = [req EXCEPT ![r].state = "pending", ![r].uses = n, ![r].timed = t]
    /\ Opens(r)
    /\ UNCHANGED <<grant, session, call, decision, acted, net, spent, withdrawn>>

\* Service.request() with a source: the worker is held first.  It refuses while
\* one of its requests is being checked, and _worker while another is pending.
Hold(r) ==
    /\ call.at = "idle" /\ ~session.fenced
    /\ r \in Setups /\ req[r].state = "none" /\ session.phase = "bootstrap"
    /\ session.hold \/ (~ReplacementPending /\ net.at = "idle")
    /\ session' = [session EXCEPT !.hold = TRUE]
    /\ call' = [Idle EXCEPT !.at = "propose", !.r = r]
    /\ UNCHANGED <<asked, acted, net, spent>>

\* _source_snapshot() and _replacement_proposal(): all unspent uses are carried.
Source(s) == s \in Setups /\ Usable(s) /\ grant[s].left > 0

Propose ==
    /\ call.at = "propose" /\ Free
    /\ \/ \E s \in Setups \ {call.r} :
            /\ Source(s) /\ ActiveCount <= MaxActive
            /\ \A x \in Requests : ~Pending(x)
            /\ req' = [req EXCEPT ![call.r] =
                   [state |-> "pending", fence |-> FALSE, source |-> s, timed |-> FALSE,
                    line |-> {call.r} \cup req[s].line, uses |-> grant[s].left]]
            /\ Opens(call.r)
       \/ UNCHANGED <<req, window>>
    /\ call' = [call EXCEPT !.at = "sync"]
    /\ UNCHANGED <<grant, session, decision, acted, net, spent, withdrawn>>

\* _sync_setup_hold() in the thread of the call, which has execute_lock.
SyncCall ==
    /\ call.at = "sync"
    /\ session' = [session EXCEPT !.hold = @ /\ ReplacementPending /\ ~session.fenced]
    /\ call' = Idle
    /\ UNCHANGED <<asked, acted, net, spent>>

\* status() looks whether the worker can be released.
Status ==
    /\ call.at = "idle" /\ session.hold
    /\ call' = [Idle EXCEPT !.at = "sync"]
    /\ UNCHANGED <<asked, session, acted, net, spent>>

(***************************************************************************)
(* Decisions.                                                               *)
(***************************************************************************)
\* A defect: the fences of the source are not looked at again.
UnchangedAnyhow(r) ==
    Pending(r) /\ req[r].source # None /\ grant[req[r].source].left = req[r].uses

\* _replacement_unchanged()
Unchanged(r) ==
    /\ Pending(r)
    /\ Source(req[r].source)
    /\ grant[req[r].source].left = req[r].uses
    /\ ActiveCount <= MaxActive

Settle(r, state) == req' = [req EXCEPT ![r].state = state]
After(r) == decision' = [at |-> IF req[r].source = None THEN "idle" ELSE "sync",
                         r |-> None, uses |-> 0]

\* accept_decision() up to the journal's first write; the lock is kept.  A
\* replacement that leaves out what it carries over is blocked.
Decide(r) ==
    /\ decision.at = "idle" /\ window[r] = "open" /\ ~session.fenced
    /\ Pending(r)
    /\ \/ Settle(r, "rejected") /\ After(r)
       \/ /\ req[r].source = None \/ Unchanged(r)
          /\ \E n \in 1..req[r].uses : decision' = [at |-> "deciding", r |-> r, uses |-> n]
          /\ UNCHANGED req
       \/ /\ req[r].source # None
          /\ Settle(r, "replacement-blocked") /\ After(r)
    /\ UNCHANGED <<grant, session, call, window, acted, net, spent, withdrawn>>

Issue(r, g) == [g EXCEPT ![r] = [state |-> "active", left |-> decision.uses,
                                 approved |-> decision.uses]]

\* A defect: the source stays active beside its replacement.
ReplaceBeside(r) ==
    /\ grant' = Issue(r, grant)
    /\ req' = [req EXCEPT ![r].state = "approved", ![req[r].source].state = "replaced"]

\* _accept_replacement() under publication_lock.
Replace(r) ==
    /\ grant' = Issue(r, [grant EXCEPT ![req[r].source].state = "replaced"])
    /\ req' = [req EXCEPT ![r].state = "approved", ![req[r].source].state = "replaced"]

\* The rest of accept_decision(): a fence that was set meanwhile is an error,
\* and then the window revokes.
Publish ==
    LET r == decision.r
    IN  /\ decision.at = "deciding"
        /\ \/ /\ ~session.fenced /\ req[r].source = None /\ ~req[r].fence
              /\ grant' = Issue(r, grant) /\ Settle(r, "approved")
              /\ After(r) /\ UNCHANGED window
           \/ /\ ~session.fenced /\ req[r].source # None
              /\ IF Unchanged(r)
                 THEN Replace(r) /\ window' = [window EXCEPT ![req[r].source] = "done"]
                 ELSE Settle(r, "replacement-blocked") /\ UNCHANGED <<grant, window>>
              /\ After(r)
           \/ /\ session.fenced \/ (req[r].source = None /\ req[r].fence)
              /\ window' = [window EXCEPT ![r] = IF @ = "open" THEN "revoke" ELSE @]
              /\ decision' = [at |-> "idle", r |-> None, uses |-> 0]
              /\ UNCHANGED <<req, grant>>
        /\ UNCHANGED <<session, call, acted, net, spent, withdrawn>>

\* _sync_setup_hold() in this thread: the check, and the release of the worker,
\* which waits for execute_lock.
SyncDecision ==
    /\ decision.at = "sync"
    /\ decision' = [decision EXCEPT !.at = IF session.hold /\ ~ReplacementPending /\ ~session.fenced
                                           THEN "release" ELSE "idle"]
    /\ session' = [session EXCEPT !.hold = @ /\ ~session.fenced]
    /\ UNCHANGED <<req, grant, window, withdrawn, call, acted, net, spent>>

ReleaseDecision ==
    /\ decision.at = "release" /\ ExecuteFree
    /\ decision' = [decision EXCEPT !.at = "idle"]
    /\ session' = [session EXCEPT !.hold = FALSE]
    /\ UNCHANGED <<req, grant, window, withdrawn, call, acted, net, spent>>

ReviewExpires(r) ==
    /\ req[r].state = "pending" /\ Settle(r, "expired")
    /\ UNCHANGED <<grant, session, call, decision, window, acted, net, spent, withdrawn>>

GrantExpires(r) ==
    /\ grant[r].state = "active" /\ grant' = [grant EXCEPT ![r].state = "expired"]
    /\ UNCHANGED <<req, session, call, decision, window, acted, net, spent, withdrawn>>

(***************************************************************************)
(* Revocation.                                                              *)
(***************************************************************************)
\* The window is closed, or its owner revokes: _prompt_revoked().
WindowRevokes(r) ==
    /\ window[r] = "open" /\ window' = [window EXCEPT ![r] = "revoke"]
    /\ UNCHANGED <<req, grant, session, call, decision, acted, net, spent, withdrawn>>

\* revoke_request() under publication_lock; a replaced request is left alone.
Fence(r) ==
    /\ window[r] = "revoke"
    /\ req' = [req EXCEPT ![r].fence = @ \/ req[r].state # "replaced"]
    /\ window' = [window EXCEPT ![r] = "sync"]
    /\ UNCHANGED <<grant, session, call, decision, acted, net, spent, withdrawn>>

\* _sync_setup_hold() in the thread of the window.
SyncWindow(r) ==
    /\ window[r] = "sync"
    /\ window' = [window EXCEPT ![r] = IF session.hold /\ ~ReplacementPending /\ ~session.fenced
                                       THEN "release" ELSE "check"]
    /\ session' = [session EXCEPT !.hold = @ /\ ~session.fenced]
    /\ UNCHANGED <<req, grant, decision, withdrawn, call, acted, net, spent>>

ReleaseWindow(r) ==
    /\ window[r] = "release" /\ ExecuteFree
    /\ window' = [window EXCEPT ![r] = "check"]
    /\ session' = [session EXCEPT !.hold = FALSE]
    /\ UNCHANGED <<req, grant, decision, withdrawn, call, acted, net, spent>>

Revoked(r) == withdrawn' = withdrawn \cup (IF req[r].state = "replaced" THEN {} ELSE {r})

\* A defect: an action that executes under the request is not looked for.
CheckNothing(r) ==
    /\ window[r] = "check" /\ window' = [window EXCEPT ![r] = "done"]
    /\ UNCHANGED session /\ Revoked(r)
    /\ UNCHANGED <<req, grant, call, decision, acted, net, spent>>

\* The end of _prompt_revoked().
CheckExecuting(r) ==
    /\ window[r] = "check" /\ window' = [window EXCEPT ![r] = "done"]
    /\ IF \E a \in executing : att[a].of = r THEN Emergency ELSE UNCHANGED session
    /\ Revoked(r)
    /\ UNCHANGED <<req, grant, call, decision, acted, net, spent>>

\* The tool: Broker.revoke().  No call executes meanwhile.
Revoke(r) ==
    /\ call.at = "idle"
    /\ grant[r].state \in {"active", "expired"}
    /\ grant' = [grant EXCEPT ![r].state = "revoked"] /\ Revoked(r)
    /\ UNCHANGED <<req, session, call, decision, window, acted, net, spent>>

\* Broker.cancel(): the fence first, the rest under broker.lock.
Cancel(r) ==
    /\ call.at = "idle" /\ Pending(r)
    /\ req' = [req EXCEPT ![r].fence = TRUE]
    /\ call' = [Idle EXCEPT !.at = "cancel", !.r = r]
    /\ UNCHANGED <<grant, session, decision, window, acted, net, spent, withdrawn>>

\* A decision that came first is an error of the call; its grant is fenced.
Cancelled ==
    /\ call.at = "cancel" /\ Free
    /\ IF req[call.r].state = "pending"
       THEN Settle(call.r, "cancelled") /\ window' = [window EXCEPT ![call.r] = "done"]
            /\ call' = [call EXCEPT !.at = "sync"]
       ELSE UNCHANGED <<req, window>> /\ call' = Idle
    /\ UNCHANGED <<grant, session, decision, acted, net, spent, withdrawn>>

(***************************************************************************)
(* Startup: the worker asks before each request of a page.                  *)
(***************************************************************************)
\* _network(): a use is taken, under broker.lock.
Take(r) ==
    /\ net.at = "idle" /\ ~session.closed
    /\ Usable(r) /\ Free /\ ~ReplacementPending /\ grant[r].left > 0
    /\ grant' = [grant EXCEPT ![r].left = @ - 1]
    /\ spent' = [spent EXCEPT ![r] = @ + 1]

CheckStartup(r) ==
    /\ r \in Setups /\ session.phase = "bootstrap" /\ ~session.hold
    /\ Take(r) /\ net' = [at |-> "taken", r |-> r, a |-> None]
    /\ UNCHANGED <<req, session, call, decision, window, acted, withdrawn>>

\* The second look at the grant; for an action, it counts as dispatched.
Answer ==
    /\ net.at = "taken"
    /\ IF Usable(net.r)
       THEN /\ net' = [net EXCEPT !.at = "allowed"]
            /\ dispatched' = dispatched \cup ({net.a} \ {None})
       ELSE net' = Idle /\ UNCHANGED dispatched
    /\ UNCHANGED <<asked, session, call, att, confirm, executing, journal, permits, forwarded, spent>>

\* _send()
Send ==
    /\ net.at = "allowed" /\ net' = Idle
    /\ permits' = permits \cup (IF session.closed THEN {} ELSE {net.a} \ {None})
    /\ UNCHANGED <<asked, session, call, att, confirm, executing, dispatched, journal, forwarded, spent>>

\* resume-login completes: _retire_startup() revokes what the startup needed
\* and stops its windows.  Nothing looks at it again, so the model forgets it,
\* except that a request which is still pending keeps others from being made.
Authenticate ==
    /\ call.at = "idle" /\ session.phase = "bootstrap" /\ ~session.fenced /\ Free
    /\ ~session.hold /\ ~ReplacementPending /\ net.at = "idle"
    /\ session' = [session EXCEPT !.phase = "discovery"]
    /\ req' = [r \in Requests |-> IF r \in Setups /\ ~Pending(r) THEN Blank(r) ELSE req[r]]
    /\ grant' = [r \in Requests |-> IF r \in Setups THEN NoGrant ELSE grant[r]]
    /\ window' = [r \in Requests |-> IF r \in Setups THEN "done" ELSE window[r]]
    /\ spent' = [r \in Requests |-> IF r \in Setups THEN 0 ELSE spent[r]]
    /\ withdrawn' = withdrawn \ Setups
    /\ UNCHANGED <<call, decision, acted, net>>

(***************************************************************************)
(* Actions: Service.execute().                                              *)
(***************************************************************************)
\* Broker.reserve(): an entry of the journal for the same object conflicts, and
\* an item that is confirmed each time has one use.
Execute(r, a) ==
    /\ call.at = "idle" /\ r \notin Setups /\ Usable(r) /\ Free /\ ~ReplacementPending
    /\ req[r].timed => \A x \in Attempts : att[x].of # r
    /\ att[a].state = "none" /\ journal = {}
    /\ journal' = {a}
    /\ IF req[r].timed
       THEN /\ att' = [att EXCEPT ![a].state = "awaiting", ![a].of = r]
            /\ confirm' = [confirm EXCEPT ![a] = "open"] /\ UNCHANGED call
       ELSE /\ att' = [att EXCEPT ![a].state = "reserved", ![a].of = r]
            /\ call' = [at |-> "reserved", r |-> r, a |-> a] /\ UNCHANGED confirm
    /\ UNCHANGED <<asked, session, executing, dispatched, permits, forwarded, net, spent>>

\* The same call again, once the owner has confirmed.
ExecuteConfirmed(a) ==
    /\ call.at = "idle" /\ att[a].state = "reserved" /\ Usable(att[a].of)
    /\ Free /\ ~ReplacementPending
    /\ call' = [at |-> "reserved", r |-> att[a].of, a |-> a]
    /\ UNCHANGED <<asked, session, acted, net, spent>>

\* finish(): under a fence the record of it fails, and nothing changes.
Finish(a, state) ==
    IF session.fenced THEN UNCHANGED <<att, journal>>
    ELSE /\ att' = [att EXCEPT ![a].state = state]
         /\ journal' = journal \ (IF state \in {"verified", "failed-before-dispatch"} THEN {a} ELSE {})

\* accept_action_decision(): yes, and no; the ticket runs out.
Confirm(a) ==
    /\ confirm[a] = "open" /\ att[a].state = "awaiting" /\ ~att[a].fence
    /\ Usable(att[a].of) /\ Free
    /\ att' = [att EXCEPT ![a].state = "reserved", ![a].ticket = "valid"]
    /\ UNCHANGED <<asked, session, call, confirm, executing, dispatched, journal, permits, forwarded, net, spent>>

Deny(a) ==
    /\ confirm[a] = "open" /\ att[a].state = "awaiting" /\ ~att[a].fence
    /\ Usable(att[a].of) /\ Free
    /\ Finish(a, "failed-before-dispatch")
    /\ UNCHANGED <<asked, session, call, confirm, executing, dispatched, permits, forwarded, net, spent>>

TicketExpires(a) ==
    /\ att[a].ticket = "valid" /\ att' = [att EXCEPT ![a].ticket = "expired"]
    /\ UNCHANGED <<asked, session, call, confirm, executing, dispatched, journal, permits, forwarded, net, spent>>

\* _action_revoked(): the fence; what the attempt is doing; its end.
RevokeAction(a) ==
    /\ confirm[a] = "open"
    /\ att' = [att EXCEPT ![a].fence = TRUE] /\ confirm' = [confirm EXCEPT ![a] = "check"]
    /\ UNCHANGED <<asked, session, call, executing, dispatched, journal, permits, forwarded, net, spent>>

CheckAction(a) ==
    /\ confirm[a] = "check"
    /\ IF a \in executing THEN Emergency ELSE UNCHANGED session
    /\ confirm' = [confirm EXCEPT ![a] =
           IF a \notin executing \cup dispatched /\ att[a].state \in {"reserved", "awaiting"}
           THEN "finish" ELSE "done"]
    /\ UNCHANGED <<asked, call, att, executing, dispatched, journal, permits, forwarded, net, spent>>

FinishAction(a) ==
    /\ confirm[a] = "finish" /\ Free
    /\ Finish(a, "failed-before-dispatch")
    /\ confirm' = [confirm EXCEPT ![a] = "done"]
    /\ UNCHANGED <<asked, session, call, executing, dispatched, permits, forwarded, net, spent>>

To(place) == call' = [call EXCEPT !.at = place]

Enter ==
    /\ call.at = "reserved"
    /\ executing' = executing \cup {call.a} /\ To("start")
    /\ UNCHANGED <<asked, session, att, confirm, dispatched, journal, permits, forwarded, net, spent>>

\* _worker_locked(): the command is sent, or refused.
Start ==
    /\ call.at = "start"
    /\ To(IF session.fenced \/ ReplacementPending THEN "failed" ELSE "waiting")
    /\ UNCHANGED <<asked, session, acted, net, spent>>

\* The worker asks for its write: authorize_attempt(), the use, and
\* authorize_attempt(consume), which a ticket that was used already fails.
CheckWrite ==
    /\ call.at = "waiting" /\ Take(call.r)
    /\ LET a == call.a
       IN  /\ att[a].state = "reserved" /\ ~att[a].fence
           /\ req[call.r].timed => att[a].ticket \in {"valid", "used"}
           /\ net' = IF att[a].ticket = "used" THEN Idle ELSE [at |-> "taken", r |-> call.r, a |-> a]
           /\ att' = [att EXCEPT ![a].ticket = IF req[call.r].timed THEN "used" ELSE "none"]
    /\ UNCHANGED <<req, session, call, decision, window, withdrawn, confirm, executing, dispatched,
                   journal, permits, forwarded>>

\* The worker forwards the write.
Forward(a) ==
    /\ a \in permits /\ ~session.closed
    /\ permits' = permits \ {a} /\ forwarded' = forwarded \cup {a}
    /\ UNCHANGED <<asked, session, call, att, confirm, executing, dispatched, journal, net, spent>>

\* The reader hands on the result after all checks before it.  A permit that
\* comes after the worker has ended the action is of an earlier generation.
WorkerEnds ==
    /\ call.at = "waiting" /\ net.at = "idle" /\ ~session.closed
    /\ \/ To("finish") \/ To("failed")
    /\ permits' = {}
    /\ UNCHANGED <<asked, session, att, confirm, executing, dispatched, journal, forwarded, net, spent>>

\* A channel that is closed gives no result.
WorkerLost ==
    /\ call.at = "waiting" /\ session.closed
    /\ To("failed")
    /\ UNCHANGED <<asked, session, acted, net, spent>>

\* A worker that forwarded nothing says so; the answer of a page is never taken
\* for a proof that the write took place.
FinishCall ==
    /\ call.at = "finish" /\ Free
    /\ \E state \in IF call.a \in dispatched THEN {"partial", "outcome-unknown"}
                    ELSE {"failed-before-dispatch"} : Finish(call.a, state)
    /\ To(IF session.fenced THEN "failed" ELSE "release")
    /\ UNCHANGED <<asked, session, confirm, executing, dispatched, permits, forwarded, net, spent>>

EndCall == executing' = executing \ {call.a} /\ call' = Idle

\* release_output()
ReleaseOutput ==
    /\ call.at = "release" /\ Free
    /\ IF Usable(call.r) THEN EndCall ELSE To("failed") /\ UNCHANGED executing
    /\ UNCHANGED <<asked, session, att, confirm, dispatched, journal, permits, forwarded, net, spent>>

\* A defect: a failure is taken for one before the write.
FailedEarly ==
    /\ call.at = "failed" /\ Free
    /\ Finish(call.a, "failed-before-dispatch")
    /\ EndCall
    /\ UNCHANGED <<asked, session, confirm, dispatched, permits, forwarded, net, spent>>

\* The handler of every exception.
Failed ==
    /\ call.at = "failed" /\ Free
    /\ Finish(call.a, IF call.a \in dispatched THEN "outcome-unknown" ELSE "failed-before-dispatch")
    /\ EndCall
    /\ UNCHANGED <<asked, session, confirm, dispatched, permits, forwarded, net, spent>>

\* execution_status() with receipts: the page shows the outcome.
Reconcile(a) ==
    /\ call.at = "idle" /\ ~session.fenced /\ Free /\ ~ReplacementPending
    /\ att[a].state \in {"partial", "outcome-unknown"}
    /\ Finish(a, "verified")
    /\ UNCHANGED <<asked, session, call, confirm, executing, dispatched, permits, forwarded, net, spent>>

(***************************************************************************)
(* The session ends: its deadline, a changed profile, a record that cannot   *)
(* be written; then the channel is closed.  Or the channel is closed first,  *)
(* by a pipe that ends or a result that does not come in time, and the       *)
(* session is fenced by the hook of whoever closed it.                       *)
(***************************************************************************)
SessionFenced ==
    /\ ~session.fenced /\ Emergency
    /\ UNCHANGED <<asked, call, acted, net, spent>>

\* Channel.close()
CloseChannel ==
    /\ ~session.closed
    /\ session' = [session EXCEPT !.closed = TRUE]
    /\ UNCHANGED <<asked, call, acted, net, spent>>

\* What goes on by itself, once begun.
Step ==
    \/ Propose \/ SyncCall \/ Publish \/ SyncDecision \/ ReleaseDecision \/ Cancelled
    \/ Answer \/ Send \/ Enter \/ Start \/ WorkerLost \/ FinishCall \/ ReleaseOutput \/ Failed
    \/ \E r \in Requests : Fence(r) \/ SyncWindow(r) \/ ReleaseWindow(r) \/ CheckExecuting(r)
    \/ \E a \in Attempts : CheckAction(a) \/ FinishAction(a)

Next ==
    \/ Step \/ Status \/ Authenticate \/ CheckWrite \/ WorkerEnds \/ SessionFenced \/ CloseChannel
    \/ \E r \in Requests :
          \/ Request(r) \/ Hold(r) \/ Decide(r) \/ WindowRevokes(r) \/ Revoke(r) \/ Cancel(r)
          \/ ReviewExpires(r) \/ GrantExpires(r) \/ CheckStartup(r)
          \/ \E a \in Attempts : Execute(r, a)
    \/ \E a \in Attempts :
          ExecuteConfirmed(a) \/ Confirm(a) \/ Deny(a) \/ TicketExpires(a) \/ RevokeAction(a)
          \/ Forward(a) \/ Reconcile(a)

Spec == Init /\ [][Next]_vars

(***************************************************************************)
(* Properties                                                               *)
(***************************************************************************)
States == {"none", "pending", "approved", "rejected", "replacement-blocked", "cancelled",
           "expired", "replaced"}
Places == {"idle", "propose", "sync", "cancel", "reserved", "start", "waiting", "finish", "release",
           "failed"}
AttemptStates == {"none", "awaiting", "reserved", "partial", "outcome-unknown",
                  "failed-before-dispatch", "verified"}

Proposals == [state : States, fence : BOOLEAN, source : Requests \cup {None},
              line : SUBSET Requests, uses : 0..MaxUses, timed : BOOLEAN]
RequestTypes ==
    /\ req \in [Requests -> Proposals]
    /\ grant \in [Requests -> [state : {"none", "active", "expired", "revoked", "replaced"},
                               left : 0..MaxUses, approved : 0..MaxUses]]
    /\ window \in [Requests -> {"none", "open", "revoke", "sync", "release", "check", "done"}]
    /\ withdrawn \subseteq Requests /\ spent \in [Requests -> Nat]
Executions == [state : AttemptStates, of : Requests \cup {None}, fence : BOOLEAN,
               ticket : {"none", "valid", "used", "expired"}]
AttemptTypes ==
    /\ att \in [Attempts -> Executions]
    /\ confirm \in [Attempts -> {"none", "open", "check", "finish", "done"}]
    /\ executing \subseteq Attempts /\ dispatched \subseteq Attempts /\ journal \subseteq Attempts
    /\ permits \subseteq Attempts /\ forwarded \subseteq Attempts
Sessions == [phase : {"bootstrap", "discovery"}, fenced : BOOLEAN, closed : BOOLEAN, hold : BOOLEAN]
Calls == [at : Places, r : Requests \cup {None}, a : Attempts \cup {None}]
ThreadTypes ==
    /\ session \in Sessions
    /\ call \in Calls
    /\ net \in [at : {"idle", "taken", "allowed"}, r : Requests \cup {None}, a : Attempts \cup {None}]
    /\ decision \in [at : {"idle", "deciding", "sync", "release"}, r : Requests \cup {None},
                     uses : 0..MaxUses]
TypeOK == RequestTypes /\ AttemptTypes /\ ThreadTypes

\* What was taken under a grant and its replacements, with what the last of
\* them still allows, stays within what the owner approved for it.
Taken(r, s) == MapThenSumSet(LAMBDA g : spent[g], {g \in req[r].line : s \in req[g].line})
BudgetKept ==
    \A r \in Requests : grant[r].state # "none" =>
        \A s \in req[r].line :
            Taken(r, s) + (IF Usable(r) THEN grant[r].left ELSE 0) <= grant[s].approved

\* No grant takes over from one whose revocation was complete.
RevocationLasts == \A r \in Requests : Usable(r) => req[r].line \cap withdrawn = {}

\* A write that left the worker is fenced in the journal until it was read back.
WritesFenced == \A a \in forwarded : att[a].state # "verified" => a \in journal

\* Unless the whole session is fenced, no write leaves after the revocation of
\* its grant, or of the confirmation of it, was complete.
NoLateWrite ==
    [][\A a \in forwarded' \ forwarded :
          att[a].of \in withdrawn \/ (att[a].fence /\ confirm[a] = "done") => session.fenced]_vars

\* A worker that is held stays held while a replacement waits for its decision.
HoldWhilePending == ReplacementPending => session.hold \/ session.fenced
=============================================================================
