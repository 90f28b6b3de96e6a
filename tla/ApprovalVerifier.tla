-------------------------- MODULE ApprovalVerifier --------------------------
(***************************************************************************)
(* The verifier of release approvals (plugins/release-approval-verifier).   *)
(*                                                                         *)
(* A scheduled run_once holds an OS lock, reads the mailbox once, freezes   *)
(* the request, records the replies of the roles as decisions, reconciles   *)
(* them into a receipt, flags a withdrawn approval, and either hands a      *)
(* verified receipt to the product gate or reminds the roles that are       *)
(* silent.  Each of these is a transaction, a mail or a call of its own,    *)
(* and the process may die between any two; the next run starts over.       *)
(*                                                                         *)
(* One event is modelled: events share nothing but the lock.  A run that    *)
(* finds the lock taken, or cannot read the mailbox or the role document,   *)
(* changes nothing.                                                         *)
(***************************************************************************)
EXTENDS Naturals, Sequences

CONSTANTS
    Roles,          \* the roles of the frozen snapshot, all enabled
    Required,       \* required_roles of the request
    Verdicts,       \* what a reply is classified as
    Scope,          \* authority_scope of the request
    None,
    MaxReplies,     \* bound on the replies sent
    MaxArrivals,    \* bound on the mails delivered, duplicates included
    MaxReminders,   \* reminder_policy.maximum
    MaxDeaths       \* bound on the runs that die

ASSUME VerifierAssumption ==
    /\ Required \subseteq Roles
    /\ Required # {}
    /\ Verdicts \subseteq {"APPROVE", "HOLD", "REJECT"}
    /\ Scope \in {"PRODUCTION_RELEASE", "RD_FLYWHEEL_GOVERNANCE"}
    /\ None \notin Verdicts
    /\ {MaxReplies, MaxArrivals, MaxReminders, MaxDeaths} \subseteq Nat

VARIABLES
    reply,      \* the replies sent so far: a reply's number is its Message-ID
    box,        \* the mailbox: Message-IDs in the order of arrival
    expired,    \* expires_at has passed
    event,      \* the event file: none, frozen, or frozen and drifted since
    validated,  \* processed_messages with the status VALIDATED
    quarantined,\* processed_messages with the status QUARANTINED
    current,    \* current[r]: the reply behind the decision of r not superseded, or 0
    receipts,   \* verification_receipts, in the order of their ids
    flagged,    \* workflow_events
    handed,     \* the receipts the product gate has accepted
    accepted,   \* accepted[r]: the rows of reminder_attempts that are ACCEPTED
    reminded,   \* reminded[r]: the reminders that reached r, by number
    run,        \* the run that holds the lock
    deaths

mail == <<reply, box, expired>>
decisions == <<validated, quarantined, current>>
store == <<event, decisions, receipts, flagged, accepted>>
vars == <<mail, store, handed, reminded, run, deaths>>

\* todo: the mails still to ingest.  cur, prev: the receipt of this run and the one
\* it is compared with.  roles: silent roles not reminded yet; who: being reminded.
Idle == [at |-> "idle", todo |-> <<>>, cur |-> 0, prev |-> 0, roles |-> {}, who |-> None]
Goto(place) == run' = [run EXCEPT !.at = place]
Finish == run' = Idle

Ids == 0 .. MaxReplies
VerdictOf(i) == IF i = 0 THEN None ELSE reply[i].verdict

\* What _aggregate_status() looks for in the decisions v.
Says(v, verdict) == \E r \in Roles : VerdictOf(v[r]) = verdict
Silent(v) == \E r \in Required : v[r] = 0

\* Bug: only holds and silent roles count.
StatusIgnoresReject(v) ==
    IF expired THEN "APPROVAL_EXPIRED"
    ELSE IF Silent(v) \/ Says(v, "HOLD") THEN "APPROVAL_PAUSED" ELSE "APPROVAL_VERIFIED"

\* _aggregate_status(): the first that applies.
StatusOf(v) ==
    IF expired THEN "APPROVAL_EXPIRED"
    ELSE IF Says(v, "REJECT") THEN "APPROVAL_REJECTED"
    ELSE IF Silent(v) \/ Says(v, "HOLD") THEN "APPROVAL_PAUSED" ELSE "APPROVAL_VERIFIED"

\* The first receipt that i superseded, or 0.
Predecessor(i) ==
    LET before == {j \in DOMAIN receipts : receipts[j].next = i}
    IN  IF before = {} THEN 0 ELSE CHOOSE j \in before : \A k \in before : j <= k

(***************************************************************************)
(* The world: roles reply, mail is delivered late or twice, time passes.    *)
(***************************************************************************)
Reply ==
    /\ Len(reply) < MaxReplies
    /\ Len(box) < MaxArrivals
    /\ \E r \in Roles, d \in Verdicts : reply' = Append(reply, [role |-> r, verdict |-> d])
    /\ box' = Append(box, Len(reply) + 1)
    /\ UNCHANGED <<expired, store, handed, reminded, run, deaths>>

Redeliver ==
    /\ Len(box) < MaxArrivals
    /\ \E i \in DOMAIN reply : box' = Append(box, i)
    /\ UNCHANGED <<reply, expired, store, handed, reminded, run, deaths>>

Expire ==
    /\ ~ expired
    /\ expired' = TRUE
    /\ UNCHANGED <<reply, box, store, handed, reminded, run, deaths>>

(***************************************************************************)
(* run_once()                                                              *)
(***************************************************************************)
\* Bug: only the newest mail is read.
ScannedNewest == IF box = <<>> THEN <<>> ELSE <<box[Len(box)]>>

\* The mails as search_messages() returns them: newest first.
Scanned == [k \in DOMAIN box |-> box[Len(box) + 1 - k]]

\* The request is frozen when it is seen first.
Frozen(e) == IF e = "none" THEN "frozen" ELSE e

\* _ingest_requests(): another request mail for the same round that differs from the
\* frozen one blocks the event for good.
IngestRequests == event' \in {Frozen(event), "drifted"}

\* The run takes the lock and reads the mailbox, once.
StartRun ==
    /\ run.at = "idle"
    /\ IngestRequests
    /\ run' = [Idle EXCEPT !.at = "ingest", !.todo = Scanned]
    /\ UNCHANGED <<mail, decisions, receipts, flagged, accepted, handed, reminded, deaths>>

Seen(i) == i \in validated \cup quarantined

\* record_decision(): the decision supersedes the one the role has.
RecordDecision(i) ==
    /\ ~ Seen(i)
    /\ ~ expired
    /\ validated' = validated \cup {i}
    /\ current' = [current EXCEPT ![reply[i].role] = i]
    /\ UNCHANGED quarantined

\* The reply is late, or fails a check: sender, thread, binding or authentication.
Quarantine(i) ==
    /\ ~ Seen(i)
    /\ quarantined' = quarantined \cup {i}
    /\ UNCHANGED <<validated, current>>

\* validate_and_record_message()
Validate(i) ==
    \/ Seen(i) /\ UNCHANGED decisions
    \/ RecordDecision(i)
    \/ Quarantine(i)

\* _ingest_replies(): the next mail.
IngestReply ==
    /\ run.at = "ingest"
    /\ run.todo # <<>>
    /\ Validate(Head(run.todo))
    /\ run' = [run EXCEPT !.todo = Tail(@)]
    /\ UNCHANGED <<mail, event, receipts, flagged, accepted, handed, reminded, deaths>>

\* The receipts of the current decisions: the identity of a receipt is made of the
\* request, the decisions and the status.
Same ==
    {i \in DOMAIN receipts :
        receipts[i].votes = current /\ receipts[i].status = StatusOf(current)}

\* Bug: the receipt before stays current.
AddReceipt ==
    receipts' = Append(receipts, [votes |-> current, status |-> StatusOf(current),
                                  next |-> 0, consumed |-> FALSE])

\* record_receipt(): the new receipt supersedes those that were current.
RecordReceipt ==
    LET new == Len(receipts) + 1
    IN  receipts' = Append([i \in DOMAIN receipts |->
                              [receipts[i] EXCEPT !.next = IF @ = 0 THEN new ELSE @]],
                           [votes |-> current, status |-> StatusOf(current),
                            next |-> 0, consumed |-> FALSE])

\* Bug: there is nothing left to do for a receipt that is there already.
ReceiptFoundEnds ==
    /\ run.at = "ingest"
    /\ run.todo = <<>>
    /\ Same # {}
    /\ Finish
    /\ UNCHANGED <<mail, store, handed, reminded, deaths>>

\* reconcile() when the receipt is there already, as after a death.
ReceiptFound ==
    /\ run.at = "ingest"
    /\ run.todo = <<>>
    /\ \E i \in Same : run' = [run EXCEPT !.at = "flag", !.cur = i, !.prev = Predecessor(i)]
    /\ UNCHANGED <<mail, store, handed, reminded, deaths>>

\* reconcile() otherwise; the receipt is compared with the one that was current.
Reconcile ==
    /\ run.at = "ingest"
    /\ run.todo = <<>>
    /\ Same = {}
    /\ RecordReceipt
    /\ run' = [run EXCEPT !.at = "flag", !.cur = Len(receipts) + 1, !.prev = Len(receipts)]
    /\ UNCHANGED <<mail, event, decisions, flagged, accepted, handed, reminded, deaths>>

\* Receipt j takes back what receipt i verified.
Withdraws(i, j) ==
    /\ receipts[i].status = "APPROVAL_VERIFIED"
    /\ receipts[j].status # "APPROVAL_VERIFIED"
    /\ receipts[i].votes # receipts[j].votes

Flag(i, j) ==
    [prev |-> i, cur |-> j,
     kind |-> IF receipts[i].consumed THEN "RELEASE_HOLD_REQUESTED" ELSE "APPROVAL_REVOKED"]

\* Bug: a predecessor that was handed over is past being withdrawn.
FlagUnlessConsumed ==
    /\ run.at = "flag"
    /\ flagged' = IF run.prev # 0 /\ Withdraws(run.prev, run.cur) /\ ~ receipts[run.prev].consumed
                  THEN flagged \cup {Flag(run.prev, run.cur)} ELSE flagged
    /\ Goto("audit")
    /\ UNCHANGED <<mail, event, decisions, receipts, accepted, handed, reminded, deaths>>

\* _record_revocation_if_needed().
RecordRevocation ==
    /\ run.at = "flag"
    /\ flagged' = IF run.prev # 0 /\ Withdraws(run.prev, run.cur)
                  THEN flagged \cup {Flag(run.prev, run.cur)} ELSE flagged
    /\ Goto("audit")
    /\ UNCHANGED <<mail, event, decisions, receipts, accepted, handed, reminded, deaths>>

\* The aggregate is written to the cloud audit, which is required here: without it
\* the event stays where it is until the next run.
AuditFails ==
    /\ run.at = "audit"
    /\ Finish
    /\ UNCHANGED <<mail, store, handed, reminded, deaths>>

\* Bug: the frozen request's drift is not looked at.
AuditIgnoresDrift ==
    /\ run.at = "audit"
    /\ run' = IF receipts[run.cur].status # "APPROVAL_VERIFIED"
              THEN [run EXCEPT !.at = "remind", !.roles = {r \in Roles : current[r] = 0}]
              ELSE IF Scope = "PRODUCTION_RELEASE" THEN [run EXCEPT !.at = "handoff"] ELSE Idle
    /\ UNCHANGED <<mail, store, handed, reminded, deaths>>

\* A drifted event goes no further; evidence for a governance decision is not handed on.
Audit ==
    /\ run.at = "audit"
    /\ run' = IF event = "drifted" THEN Idle
              ELSE IF receipts[run.cur].status # "APPROVAL_VERIFIED"
              THEN [run EXCEPT !.at = "remind", !.roles = {r \in Roles : current[r] = 0}]
              ELSE IF Scope = "PRODUCTION_RELEASE" THEN [run EXCEPT !.at = "handoff"] ELSE Idle
    /\ UNCHANGED <<mail, store, handed, reminded, deaths>>

\* _handoff_verified_receipt(): the receipt was consumed before, or the gate is not
\* ready, refuses (as it does when the receipt has expired), or cannot be reached.
HandoffEnds ==
    /\ run.at = "handoff"
    /\ Finish
    /\ UNCHANGED <<mail, store, handed, reminded, deaths>>

\* The gate accepts the receipt; its answer may be lost.
HandOff ==
    /\ run.at = "handoff"
    /\ ~ receipts[run.cur].consumed
    /\ ~ expired
    /\ handed' = handed \cup {run.cur}
    /\ run' \in {[run EXCEPT !.at = "consume"], Idle}
    /\ UNCHANGED <<mail, store, reminded, deaths>>

MarkConsumed ==
    /\ run.at = "consume"
    /\ receipts' = [receipts EXCEPT ![run.cur].consumed = TRUE]
    /\ Finish
    /\ UNCHANGED <<mail, event, decisions, flagged, accepted, handed, reminded, deaths>>

(***************************************************************************)
(* send_due_reminders()                                                     *)
(***************************************************************************)
\* prepare_reminder_attempt(): the number follows the reminders that were accepted,
\* so that the row of a failed or interrupted one is used again.
PrepareReminder(r) ==
    /\ run.at = "remind"
    /\ r \in run.roles
    /\ accepted[r] < MaxReminders
    /\ run' = [run EXCEPT !.at = "send", !.roles = @ \ {r}, !.who = r]
    /\ UNCHANGED <<mail, store, handed, reminded, deaths>>

\* The mail goes out, or not; the outcome is known, or lost and taken for a failure.
SendReminder ==
    /\ run.at = "send"
    /\ \E sent, known \in BOOLEAN :
          /\ reminded' = IF sent THEN [reminded EXCEPT ![run.who] = @ \cup {accepted[run.who] + 1}]
                                 ELSE reminded
          /\ Goto(IF sent /\ known THEN "accepted" ELSE "failed")
    /\ UNCHANGED <<mail, store, handed, deaths>>

CompleteReminder ==
    /\ run.at \in {"accepted", "failed"}
    /\ accepted' = IF run.at = "accepted" THEN [accepted EXCEPT ![run.who] = @ + 1] ELSE accepted
    /\ run' = [run EXCEPT !.at = "remind", !.who = None]
    /\ UNCHANGED <<mail, event, decisions, receipts, flagged, handed, reminded, deaths>>

\* The reminders of the roles that are left, if any, are not due.
RemindersDone ==
    /\ run.at = "remind"
    /\ Finish
    /\ UNCHANGED <<mail, store, handed, reminded, deaths>>

\* The run dies; the operating system frees the lock.
Die ==
    /\ run.at # "idle"
    /\ deaths < MaxDeaths
    /\ deaths' = deaths + 1
    /\ Finish
    /\ UNCHANGED <<mail, store, handed, reminded>>

Init ==
    /\ reply = <<>>
    /\ box = <<>>
    /\ expired = FALSE
    /\ event = "none"
    /\ validated = {}
    /\ quarantined = {}
    /\ current = [r \in Roles |-> 0]
    /\ receipts = <<>>
    /\ flagged = {}
    /\ handed = {}
    /\ accepted = [r \in Roles |-> 0]
    /\ reminded = [r \in Roles |-> {}]
    /\ run = Idle
    /\ deaths = 0

World == Reply \/ Redeliver \/ Expire

RunStep ==
    \/ IngestReply \/ ReceiptFound \/ Reconcile \/ RecordRevocation \/ AuditFails \/ Audit
    \/ HandoffEnds \/ HandOff \/ MarkConsumed
    \/ SendReminder \/ CompleteReminder \/ RemindersDone
    \/ \E r \in Roles : PrepareReminder(r)

Next == World \/ StartRun \/ RunStep \/ Die

Spec == Init /\ [][Next]_vars

\* The scheduler starts runs for ever and a run that does not die ends.  The cloud
\* audit and the gate work again and again, if not always.
FairSpec ==
    /\ Spec
    /\ WF_vars(StartRun)
    /\ WF_vars(RunStep)
    /\ SF_vars(Audit)
    /\ SF_vars(HandOff /\ run'.at = "consume")

(***************************************************************************)
(* Properties                                                               *)
(***************************************************************************)
Places == {"idle", "ingest", "flag", "audit", "handoff", "consume", "remind", "send",
           "accepted", "failed"}

\* Every variable has its type.
TypeOK ==
    /\ reply \in Seq([role : Roles, verdict : Verdicts])
    /\ Len(reply) <= MaxReplies
    /\ box \in Seq(DOMAIN reply) /\ Len(box) <= MaxArrivals
    /\ expired \in BOOLEAN
    /\ event \in {"none", "frozen", "drifted"}
    /\ validated \subseteq DOMAIN reply
    /\ quarantined \subseteq DOMAIN reply \ validated
    /\ current \in [Roles -> {0} \cup DOMAIN reply]
    /\ receipts \in Seq([votes : [Roles -> Ids], next : Nat, consumed : BOOLEAN,
                         status : {"APPROVAL_EXPIRED", "APPROVAL_REJECTED",
                                   "APPROVAL_PAUSED", "APPROVAL_VERIFIED"}])
    /\ flagged \subseteq [prev : DOMAIN receipts, cur : DOMAIN receipts,
                          kind : {"RELEASE_HOLD_REQUESTED", "APPROVAL_REVOKED"}]
    /\ handed \subseteq DOMAIN receipts
    /\ accepted \in [Roles -> 0..MaxReminders]
    /\ reminded \in [Roles -> SUBSET (1..MaxReminders)]
    /\ run \in [at : Places, todo : Seq(DOMAIN reply), cur : Nat, prev : Nat,
                roles : SUBSET Roles, who : Roles \cup {None}]
    /\ deaths \in 0..MaxDeaths

\* The receipts of a round form one chain: each is superseded by the next, the last
\* by none, no decisions are receipted twice with the same status, and a receipt that
\* reconcile finds again is the last one.
ReceiptChain ==
    /\ \A i \in DOMAIN receipts :
          receipts[i].next = IF i = Len(receipts) THEN 0 ELSE i + 1
    /\ \A i, j \in DOMAIN receipts :
          i # j => receipts[i].votes # receipts[j].votes \/ receipts[i].status # receipts[j].status
    /\ run.at \in Places \ {"idle", "ingest"} => run.cur = Len(receipts)

\* A run never goes past a withdrawn approval without flagging it: whatever dies in
\* between, no reminder is sent and nothing handed over before the flag is on record.
WithdrawalFlagged ==
    run.at \in {"audit", "handoff", "consume", "remind", "send", "accepted", "failed"} =>
        \A i \in DOMAIN receipts :
            receipts[i].next = run.cur /\ Withdraws(i, run.cur) => Flag(i, run.cur) \in flagged

\* A request whose machine block drifted is never handed over after the drift is known.
DriftCloses == [][handed' # handed => event = "frozen"]_vars

\* Reminders are numbered without gaps: all accepted ones reached the role, and no
\* number is used before the one below it was accepted.
RemindersInOrder ==
    \A r \in Roles :
        /\ 1..accepted[r] \subseteq reminded[r]
        /\ reminded[r] \subseteq 1..(accepted[r] + 1)

\* The gate is asked to go forward only while every required role approves and no
\* role objects: the verifier implements the quorum.
Quorum == INSTANCE ApprovalQuorum WITH
              votes <- [r \in Roles |-> VerdictOf(current[r])],
              released <- handed # {}
ImplementsQuorum == Quorum!Spec

\* Every mail is taken up, in spite of runs that die.
RepliesProcessed ==
    \A i \in 1..MaxReplies :
        (\E k \in DOMAIN box : box[k] = i) ~> i \in validated \cup quarantined

\* A unanimous approval of a production release reaches the gate and is marked
\* consumed, unless the request expires or drifts or a role changes its mind.
VerifiedHandedOver ==
    (Quorum!Unanimous([r \in Roles |-> VerdictOf(current[r])])) ~>
        \/ expired \/ event = "drifted" \/ Scope # "PRODUCTION_RELEASE"
        \/ ~ Quorum!Unanimous([r \in Roles |-> VerdictOf(current[r])])
        \/ receipts # <<>> /\ receipts[Len(receipts)].consumed

(***************************************************************************)
(* What a test says and the code does not do.                               *)
(***************************************************************************)
\* A later valid decision counts: when a run has ended, the decision of a role is
\* its latest accepted reply.
LaterDecisionStands ==
    run.at \notin {"idle", "ingest"} =>
        \A i \in validated : i <= current[reply[i].role]
=============================================================================
