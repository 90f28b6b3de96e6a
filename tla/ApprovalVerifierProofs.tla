----------------------- MODULE ApprovalVerifierProofs -----------------------
(***************************************************************************)
(* Proofs about the verifier, for any roles, replies and deaths.  What      *)
(* carries the refinement is that the decisions do not change between the   *)
(* reconciliation of a run and its handover, because the run holds the      *)
(* lock: the receipt of the run still says what the roles say.  What        *)
(* carries the chain of receipts is that decisions never come back.         *)
(***************************************************************************)
EXTENDS ApprovalVerifier, SequenceTheorems, TLAPS

Votes == [r \in Roles |-> VerdictOf(current[r])]

Receipt == [votes : [Roles -> Nat], next : Nat, consumed : BOOLEAN,
            status : {"APPROVAL_EXPIRED", "APPROVAL_REJECTED",
                      "APPROVAL_PAUSED", "APPROVAL_VERIFIED"}]

\* The part of the types that the refinement needs.
VotesOK ==
    /\ reply \in Seq([role : Roles, verdict : Verdicts])
    /\ box \in Seq(DOMAIN reply)
    /\ DOMAIN run = {"at", "todo", "cur", "prev", "roles", "who"}
    /\ run.todo \in Seq(DOMAIN reply)
    /\ current \in [Roles -> {0} \cup DOMAIN reply]

\* The receipt of the run is verified only if the roles are unanimous, and only a
\* verified one is handed over.
Agreement ==
    /\ run.at \notin {"idle", "ingest"} =>
          /\ run.cur \in DOMAIN receipts
          /\ receipts[run.cur].status = "APPROVAL_VERIFIED" => Quorum!Unanimous(Votes)
    /\ run.at = "handoff" => /\ receipts[run.cur].status = "APPROVAL_VERIFIED"
                             /\ event = "frozen"

IInv ==
    /\ VotesOK
    /\ receipts \in Seq(Receipt)
    /\ event \in {"none", "frozen", "drifted"}
    /\ run.at # "idle" => event # "none"
    /\ Agreement

\* reply only grows, so that what a reply says stays.
LEMMA AppendKeeps ==
    ASSUME NEW S, NEW s \in Seq(S), NEW e \in S
    PROVE  /\ Append(s, e) \in Seq(S)
           /\ DOMAIN s \subseteq DOMAIN Append(s, e)
           /\ Len(s) + 1 \in DOMAIN Append(s, e)
           /\ 0 \notin DOMAIN Append(s, e)
           /\ \A i \in DOMAIN s : Append(s, e)[i] = s[i]
  OBVIOUS

LEMMA SeqMonotone ==
    ASSUME NEW S, NEW T, S \subseteq T
    PROVE  Seq(S) \subseteq Seq(T)
  OBVIOUS

\* What a reply that was sent looks like.
LEMMA ReplyTyped ==
    ASSUME VotesOK, NEW i \in DOMAIN reply
    PROVE  reply[i].role \in Roles /\ reply[i].verdict \in Verdicts /\ i # 0
<1> DEFINE S == [role : Roles, verdict : Verdicts]
<1>1. reply \in Seq(S)
  BY DEF VotesOK
<1>2. \A r \in S : r.role \in Roles /\ r.verdict \in Verdicts
  OBVIOUS
<1> HIDE DEF S
<1>3. i \in 1..Len(reply) /\ reply[i] \in S
  BY <1>1, LenProperties, ElementOfSeq
<1>4. QED
  BY <1>1, <1>2, <1>3, LenProperties

\* A status of verified is given to unanimous decisions only.
LEMMA VerifiedIsUnanimous ==
    ASSUME VerifierAssumption, VotesOK, StatusOf(current) = "APPROVAL_VERIFIED"
    PROVE  Quorum!Unanimous(Votes)
<1>1. ~ expired /\ ~ Says(current, "REJECT") /\ ~ Silent(current) /\ ~ Says(current, "HOLD")
  BY DEF StatusOf
<1>2. ASSUME NEW r \in Roles
      PROVE  /\ Votes[r] \in {"APPROVE", None}
             /\ r \in Required => Votes[r] = "APPROVE"
  <2>1. CASE current[r] = 0
    BY <1>1, <2>1 DEF Votes, VerdictOf, Silent
  <2>2. CASE current[r] # 0
    <3>1. current[r] \in DOMAIN reply
      BY <2>2 DEF VotesOK
    <3>2. reply[current[r]].verdict \in Verdicts
      BY <3>1, ReplyTyped
    <3>3. Votes[r] = reply[current[r]].verdict
      BY <2>2 DEF Votes, VerdictOf
    <3>4. Votes[r] \notin {"REJECT", "HOLD"}
      BY <1>1, <2>2, <3>3 DEF Says, VerdictOf
    <3>5. QED
      BY <3>2, <3>3, <3>4 DEF VerifierAssumption
  <2>3. QED
    BY <2>1, <2>2
<1>3. QED
  BY <1>2 DEF Quorum!Unanimous, VerifierAssumption

\* A step that leaves replies, mailbox and decisions alone keeps the votes.
LEMMA SameVotes ==
    ASSUME VotesOK, UNCHANGED <<reply, box, current>>, run'.todo \in {run.todo, <<>>},
           DOMAIN run' = {"at", "todo", "cur", "prev", "roles", "who"}
    PROVE  VotesOK' /\ Votes' = Votes
<1>1. <<>> \in Seq(DOMAIN reply)
  OBVIOUS
<1>2. QED
  BY <1>1 DEF VotesOK, Votes, VerdictOf

LEMMA ReplyStep ==
    ASSUME VotesOK, Reply
    PROVE  VotesOK' /\ Votes' = Votes
<1>1. PICK r \in Roles, d \in Verdicts : reply' = Append(reply, [role |-> r, verdict |-> d])
  BY DEF Reply
<1> DEFINE S == [role : Roles, verdict : Verdicts]
           e == [role |-> r, verdict |-> d]
<1>2. e \in S /\ reply \in Seq(S)
  BY DEF VotesOK
<1> HIDE DEF S, e
<1>3. /\ reply' \in Seq(S)
      /\ DOMAIN reply \subseteq DOMAIN reply'
      /\ Len(reply) + 1 \in DOMAIN reply'
      /\ \A i \in DOMAIN reply : reply'[i] = reply[i]
  BY <1>1, <1>2, AppendKeeps DEF e
<1>4. box \in Seq(DOMAIN reply') /\ run.todo \in Seq(DOMAIN reply')
  BY <1>3, SeqMonotone DEF VotesOK
<1>5. box' \in Seq(DOMAIN reply')
  BY <1>3, <1>4, AppendKeeps DEF Reply
<1>6. UNCHANGED <<current, run>>
  BY DEF Reply, store, decisions
<1>7. VotesOK'
  BY <1>2, <1>3, <1>4, <1>5, <1>6 DEF VotesOK, S
<1>8. ASSUME NEW q \in Roles PROVE VerdictOf(current[q])' = VerdictOf(current[q])
  BY <1>3, <1>6 DEF VerdictOf, VotesOK
<1>9. QED
  BY <1>7, <1>8 DEF Votes

\* The mails of a scan are the mails of the box.
LEMMA ScannedMails ==
    ASSUME VotesOK
    PROVE  Scanned \in Seq(DOMAIN reply)
<1>1. Len(box) \in Nat /\ DOMAIN box = 1..Len(box)
  BY LenProperties DEF VotesOK
<1>2. \A k \in 1..Len(box) : Len(box) + 1 - k \in 1..Len(box)
  BY <1>1
<1>3. \A k \in 1..Len(box) : box[Len(box) + 1 - k] \in DOMAIN reply
  BY <1>1, <1>2, ElementOfSeq DEF VotesOK
<1>4. QED
  BY <1>1, <1>3, IsASeq DEF Scanned

\* IngestReply moves the votes as the abstract specification lets a role vote.
LEMMA IngestStep ==
    ASSUME VotesOK, IngestReply
    PROVE  /\ VotesOK'
           /\ \/ Votes' = Votes
              \/ \E r \in Roles, d \in Verdicts : Votes' = [Votes EXCEPT ![r] = d]
<1> DEFINE i == Head(run.todo)
<1>1. UNCHANGED <<reply, box>> /\ run.todo \in Seq(DOMAIN reply) /\ run.todo # <<>>
  BY DEF IngestReply, mail, VotesOK
<1>2. i \in DOMAIN reply /\ Tail(run.todo) \in Seq(DOMAIN reply)
  BY <1>1, HeadTailProperties
<1>3. run'.todo = Tail(run.todo) /\ DOMAIN run' = DOMAIN run
  BY DEF IngestReply, VotesOK
<1>4. CASE RecordDecision(i)
  <2>1. reply[i].role \in Roles /\ reply[i].verdict \in Verdicts
    BY <1>2, ReplyTyped
  <2>2. current' = [current EXCEPT ![reply[i].role] = i]
    BY <1>4 DEF RecordDecision
  <2>3. VotesOK'
    BY <1>1, <1>2, <1>3, <2>1, <2>2 DEF VotesOK
  <2>4. i # 0
    BY <1>2, ReplyTyped
  <2>5. Votes' = [Votes EXCEPT ![reply[i].role] = reply[i].verdict]
    BY <1>1, <2>1, <2>2, <2>4 DEF Votes, VerdictOf, VotesOK
  <2>6. QED
    BY <2>1, <2>3, <2>5
<1>5. CASE UNCHANGED current
  BY <1>1, <1>2, <1>3, <1>5 DEF VotesOK, Votes, VerdictOf
<1>6. QED
  BY <1>4, <1>5 DEF IngestReply, Validate, Quarantine, decisions

\* Every step keeps the types and the agreement, and moves the verifier as the quorum
\* may move, or not at all.
Moves ==
    \/ UNCHANGED <<Votes, handed>>
    \/ /\ UNCHANGED handed
       /\ \E r \in Roles, d \in Verdicts : Votes' = [Votes EXCEPT ![r] = d]
    \/ UNCHANGED Votes /\ Quorum!Unanimous(Votes) /\ (handed # {})' = TRUE

\* The run is over, dead or not: nothing is left to agree with.
LEMMA RunEnds ==
    ASSUME IInv, UNCHANGED <<reply, box, current, event>>, Finish, receipts' \in Seq(Receipt)
    PROVE  IInv' /\ Votes' = Votes
<1>1. VotesOK' /\ Votes' = Votes
  BY SameVotes DEF IInv, Finish, Idle
<1>2. QED
  BY <1>1 DEF IInv, Agreement, Finish, Idle

\* The run goes on to another place past its reconciliation, with the same receipt.
LEMMA RunGoesOn ==
    ASSUME IInv, UNCHANGED <<reply, box, current, receipts, event>>,
           run.at \notin {"idle", "ingest"}, run'.todo = run.todo, run'.cur = run.cur,
           DOMAIN run' = DOMAIN run,
           run'.at = "handoff" => /\ receipts[run.cur].status = "APPROVAL_VERIFIED"
                                  /\ event = "frozen"
    PROVE  IInv' /\ Votes' = Votes
<1>1. VotesOK' /\ Votes' = Votes
  BY SameVotes DEF IInv, VotesOK
<1>2. QED
  BY <1>1 DEF IInv, Agreement, Quorum!Unanimous

\* What run holds while it runs.
LEMMA WorldKeeps ==
    ASSUME IInv, World
    PROVE  IInv' /\ Votes' = Votes
<1>1. UNCHANGED <<run, receipts, event, current>>
  BY DEF World, Reply, Redeliver, Expire, store, decisions
<1>2. VotesOK' /\ Votes' = Votes
  <2>1. CASE Reply
    BY <2>1, ReplyStep DEF IInv
  <2>2. CASE Redeliver
    <3>1. PICK i \in DOMAIN reply : box' = Append(box, i)
      BY <2>2 DEF Redeliver
    <3>2. UNCHANGED reply
      BY <2>2 DEF Redeliver
    <3>3. box' \in Seq(DOMAIN reply)
      BY <3>1, AppendKeeps DEF IInv, VotesOK
    <3>4. QED
      BY <1>1, <3>2, <3>3 DEF IInv, VotesOK, Votes, VerdictOf
  <2>3. CASE Expire
    BY <1>1, <2>3, SameVotes DEF IInv, VotesOK, Expire
  <2>4. QED
    BY <2>1, <2>2, <2>3 DEF World
<1>3. QED
  BY <1>1, <1>2 DEF IInv, Agreement, Quorum!Unanimous

LEMMA StartRunKeeps ==
    ASSUME IInv, StartRun
    PROVE  IInv' /\ Votes' = Votes
<1>1. UNCHANGED <<reply, box, current, receipts>>
  BY DEF StartRun, mail, decisions
<1>2. /\ run'.todo = Scanned /\ run'.at = "ingest" /\ DOMAIN run' = DOMAIN Idle
      /\ event' \in {"frozen", "drifted"}
  BY DEF StartRun, Idle, IngestRequests, Frozen, IInv
<1>3. VotesOK' /\ Votes' = Votes
  BY <1>1, <1>2, ScannedMails DEF IInv, VotesOK, Votes, VerdictOf, Idle
<1>4. QED
  BY <1>1, <1>2, <1>3 DEF IInv, Agreement

LEMMA ReconcileKeeps ==
    ASSUME VerifierAssumption, IInv, ReceiptFound \/ Reconcile
    PROVE  IInv' /\ Votes' = Votes
<1>1. UNCHANGED <<reply, box, current, event, expired>> /\ run.at = "ingest"
  BY DEF ReceiptFound, Reconcile, mail, store, decisions
<1>2. run'.todo = run.todo /\ run'.at = "flag" /\ DOMAIN run' = DOMAIN run
  BY DEF ReceiptFound, Reconcile, IInv, VotesOK
<1>3. VotesOK' /\ Votes' = Votes
  BY <1>1, <1>2, SameVotes DEF IInv, VotesOK
<1>4. /\ receipts' \in Seq(Receipt)
      /\ run'.cur \in DOMAIN receipts'
      /\ receipts'[run'.cur].status = StatusOf(current)
  <2>1. CASE ReceiptFound
    BY <2>1 DEF ReceiptFound, Same, store, IInv, VotesOK
  <2>2. CASE Reconcile
    <3> DEFINE new == Len(receipts) + 1
               old == [i \in DOMAIN receipts |->
                         [receipts[i] EXCEPT !.next = IF @ = 0 THEN new ELSE @]]
               add == [votes |-> current, status |-> StatusOf(current),
                       next |-> 0, consumed |-> FALSE]
    <3>1. receipts' = Append(old, add) /\ run'.cur = new
      BY <2>2 DEF Reconcile, RecordReceipt
    <3>2. Len(receipts) \in Nat /\ DOMAIN receipts = 1..Len(receipts)
      BY LenProperties DEF IInv
    <3>3. \A i \in DOMAIN receipts : old[i] \in Receipt
      <4> SUFFICES ASSUME NEW i \in DOMAIN receipts PROVE old[i] \in Receipt
        OBVIOUS
      <4>1. receipts[i] \in Receipt
        BY <3>2, ElementOfSeq DEF IInv
      <4>2. QED
        BY <3>2, <4>1 DEF Receipt
    <3>4. old \in Seq(Receipt) /\ Len(old) = Len(receipts)
      <4> HIDE DEF Receipt
      <4>1. old \in [1..Len(receipts) -> Receipt]
        BY <3>2, <3>3
      <4>2. QED
        BY <3>2, <4>1
    <3>5. DOMAIN reply \subseteq Nat
      BY LenProperties DEF IInv, VotesOK
    <3>6. add \in Receipt
      BY <3>5 DEF Receipt, StatusOf, IInv, VotesOK
    <3>7. add.status = StatusOf(current)
      OBVIOUS
    <3> HIDE DEF old, add
    <3>8. QED
      BY <3>1, <3>2, <3>4, <3>6, <3>7
  <2>3. QED
    BY <2>1, <2>2
<1>5. StatusOf(current) = "APPROVAL_VERIFIED" => Quorum!Unanimous(Votes)
  BY VerifiedIsUnanimous DEF IInv
<1>6. QED
  BY <1>1, <1>2, <1>3, <1>4, <1>5 DEF IInv, Agreement, Quorum!Unanimous

\* A step of the run past its reconciliation.
LateStep ==
    \/ RecordRevocation \/ AuditFails \/ Audit \/ HandoffEnds \/ HandOff \/ MarkConsumed
    \/ SendReminder \/ CompleteReminder \/ RemindersDone
    \/ \E r \in Roles : PrepareReminder(r)

LEMMA LateStepKeeps ==
    ASSUME IInv, LateStep
    PROVE  IInv' /\ Votes' = Votes
<1>1. UNCHANGED <<reply, box, current, event>>
  BY DEF LateStep, RecordRevocation, AuditFails, Audit, HandoffEnds, HandOff, MarkConsumed,
         SendReminder, CompleteReminder, RemindersDone, PrepareReminder, mail, store, decisions
<1>2. run.at \notin {"idle", "ingest"}
  BY DEF LateStep, RecordRevocation, AuditFails, Audit, HandoffEnds, HandOff, MarkConsumed,
         SendReminder, CompleteReminder, RemindersDone, PrepareReminder
<1>3. CASE MarkConsumed
  <2>1. receipts' = [receipts EXCEPT ![run.cur].consumed = TRUE] /\ run.cur \in DOMAIN receipts
    BY <1>2, <1>3 DEF MarkConsumed, IInv, Agreement
  <2>2. \A r \in Receipt : [r EXCEPT !.consumed = TRUE] \in Receipt
    BY DEF Receipt
  <2>3. receipts[run.cur] \in Receipt
    BY <2>1, LenProperties, ElementOfSeq DEF IInv
  <2>4. receipts' = [receipts EXCEPT ![run.cur] = [receipts[run.cur] EXCEPT !.consumed = TRUE]]
    BY <2>1
  <2>5. receipts' \in Seq(Receipt)
    BY <2>1, <2>2, <2>3, <2>4, ExceptSeq DEF IInv
  <2>6. QED
    BY <1>1, <1>3, <2>5, RunEnds DEF MarkConsumed
<1>4. CASE ~ MarkConsumed
  <2>1. UNCHANGED receipts
    BY <1>4 DEF LateStep, RecordRevocation, AuditFails, Audit, HandoffEnds, HandOff,
           SendReminder, CompleteReminder, RemindersDone, PrepareReminder, store, decisions
  <2>2. CASE Finish
    BY <1>1, <2>1, <2>2, RunEnds DEF IInv
  <2>3. CASE ~ Finish
    <3>1. /\ run'.todo = run.todo /\ run'.cur = run.cur /\ DOMAIN run' = DOMAIN run
          /\ run'.at = "handoff" => /\ receipts[run.cur].status = "APPROVAL_VERIFIED"
                                    /\ event # "drifted"
      BY <1>4, <2>3 DEF LateStep, RecordRevocation, AuditFails, Audit, HandoffEnds, HandOff,
             SendReminder, CompleteReminder, RemindersDone, PrepareReminder, Goto, Finish,
             IInv, VotesOK
    <3>2. event \in {"frozen", "drifted"}
      BY <1>2 DEF IInv
    <3>3. QED
      BY <1>1, <1>2, <2>1, <3>1, <3>2, RunGoesOn
  <2>4. QED
    BY <2>2, <2>3
<1>5. QED
  BY <1>3, <1>4

LEMMA HandOffIsAgreed ==
    ASSUME IInv, LateStep, handed' # handed
    PROVE  Quorum!Unanimous(Votes) /\ (handed # {})' /\ event = "frozen"
<1>1. HandOff
  BY DEF LateStep, RecordRevocation, AuditFails, Audit, HandoffEnds, MarkConsumed,
         SendReminder, CompleteReminder, RemindersDone, PrepareReminder
<1>2. run.at = "handoff" /\ handed' = handed \cup {run.cur}
  BY <1>1 DEF HandOff
<1>3. QED
  BY <1>2 DEF IInv, Agreement

\* Every step keeps the invariant, and is a step of the quorum or none.
LEMMA StepKeeps ==
    ASSUME VerifierAssumption, IInv, [Next]_vars
    PROVE  /\ IInv'
           /\ Moves
           /\ handed' # handed => event = "frozen"
<1>1. CASE World
  <2>1. UNCHANGED handed
    BY <1>1 DEF World, Reply, Redeliver, Expire
  <2>2. QED
    BY <1>1, <2>1, WorldKeeps DEF Moves
<1>2. CASE StartRun
  <2>1. UNCHANGED handed
    BY <1>2 DEF StartRun
  <2>2. QED
    BY <1>2, <2>1, StartRunKeeps DEF Moves
<1>3. CASE IngestReply
  <2>1. UNCHANGED <<handed, receipts, event>> /\ run.at = "ingest" /\ run'.at = "ingest"
    BY <1>3 DEF IngestReply, IInv, VotesOK
  <2>2. IInv'
    BY <1>3, <2>1, IngestStep DEF IInv, Agreement
  <2>3. QED
    BY <1>3, <2>1, <2>2, IngestStep DEF IInv, Moves
<1>4. CASE ReceiptFound \/ Reconcile
  <2>1. UNCHANGED handed
    BY <1>4 DEF ReceiptFound, Reconcile
  <2>2. QED
    BY <1>4, <2>1, ReconcileKeeps DEF Moves
<1>5. CASE LateStep
  BY <1>5, LateStepKeeps, HandOffIsAgreed DEF Moves
<1>6. CASE Die
  <2>1. UNCHANGED <<reply, box, current, event, receipts, handed>> /\ Finish
    BY <1>6 DEF Die, mail, store, decisions
  <2>2. QED
    BY <2>1, RunEnds DEF IInv, Moves
<1>7. CASE UNCHANGED vars
  <2>1. UNCHANGED <<reply, box, expired, event, current, receipts, handed, run>>
    BY <1>7 DEF vars, mail, store, decisions
  <2>2. QED
    BY <2>1 DEF IInv, VotesOK, Agreement, Votes, VerdictOf, Quorum!Unanimous, Moves
<1>8. QED
  BY <1>1, <1>2, <1>3, <1>4, <1>5, <1>6, <1>7 DEF Next, RunStep, LateStep

LEMMA InitKeeps ==
    ASSUME VerifierAssumption, Init
    PROVE  IInv /\ Votes = [r \in Roles |-> None] /\ handed = {}
<1>1. <<>> \in Seq([role : Roles, verdict : Verdicts]) /\ <<>> \in Seq(DOMAIN reply)
      /\ <<>> \in Seq(Receipt)
  OBVIOUS
<1>2. VotesOK
  BY <1>1 DEF Init, VotesOK, Idle
<1>3. QED
  BY <1>1, <1>2 DEF Init, IInv, Agreement, Idle, Votes, VerdictOf

\* The receipt of a run agrees with the roles for as long as the run lasts.
THEOREM VerifierSafety == Spec => []IInv
<1>1. Init => IInv
  BY VerifierAssumption, InitKeeps
<1>2. IInv /\ [Next]_vars => IInv'
  BY VerifierAssumption, StepKeeps
<1>3. QED
  BY <1>1, <1>2, PTL DEF Spec

\* The verifier asks the gate to go forward only at a moment of unanimity, whatever
\* the roles, the replies and the deaths.
THEOREM VerifierImplementsQuorum == Spec => ImplementsQuorum
<1>1. Init => Quorum!Init
  BY VerifierAssumption, InitKeeps DEF Quorum!Init, Votes
<1>2. IInv /\ [Next]_vars => [Quorum!Next]_<<Votes, handed # {}>>
  <2> SUFFICES ASSUME IInv, [Next]_vars
               PROVE  [Quorum!Next]_<<Votes, handed # {}>>
    OBVIOUS
  <2>1. Moves
    BY VerifierAssumption, StepKeeps
  <2>2. CASE UNCHANGED <<Votes, handed>>
    BY <2>2
  <2>3. CASE /\ UNCHANGED handed
             /\ \E r \in Roles, d \in Verdicts : Votes' = [Votes EXCEPT ![r] = d]
    BY <2>3 DEF Quorum!Next, Quorum!Vote, Votes
  <2>4. CASE UNCHANGED Votes /\ Quorum!Unanimous(Votes) /\ (handed # {})' = TRUE
    BY <2>4 DEF Quorum!Next, Quorum!GoForward, Votes
  <2>5. QED
    BY <2>1, <2>2, <2>3, <2>4 DEF Moves
<1>3. Votes = [r \in Roles |-> VerdictOf(current[r])]
  BY DEF Votes
<1>4. QED
  BY <1>1, <1>2, <1>3, VerifierSafety, PTL DEF Spec, ImplementsQuorum, Quorum!Spec, Votes

\* A request that drifted is never handed over.
THEOREM DriftIsFinal == Spec => DriftCloses
<1>1. IInv /\ [Next]_vars => [handed' # handed => event = "frozen"]_vars
  BY VerifierAssumption, StepKeeps
<1>2. QED
  BY <1>1, VerifierSafety, PTL DEF Spec, DriftCloses

(***************************************************************************)
(* The chain of the receipts                                                *)
(*                                                                         *)
(* Decisions never come back: each is a reply that was not counted before.  *)
(* So a receipt that is found again is the last one, and the one before it  *)
(* is the only one that it can withdraw.                                    *)
(***************************************************************************)
Statuses == {"APPROVAL_EXPIRED", "APPROVAL_REJECTED", "APPROVAL_PAUSED", "APPROVAL_VERIFIED"}
Rows == [votes : [Roles -> Ids], next : Nat, consumed : BOOLEAN, status : Statuses]

MailTypes ==
    /\ reply \in Seq([role : Roles, verdict : Verdicts]) /\ Len(reply) <= MaxReplies
    /\ box \in Seq(DOMAIN reply) /\ Len(box) <= MaxArrivals
    /\ expired \in BOOLEAN

DecisionTypes ==
    /\ validated \subseteq DOMAIN reply
    /\ quarantined \subseteq DOMAIN reply \ validated
    /\ current \in [Roles -> {0} \cup DOMAIN reply]

ReceiptTypes ==
    /\ receipts \in Seq(Rows)
    /\ flagged \subseteq [prev : DOMAIN receipts, cur : DOMAIN receipts,
                          kind : {"RELEASE_HOLD_REQUESTED", "APPROVAL_REVOKED"}]
    /\ handed \subseteq DOMAIN receipts

ReminderTypes ==
    /\ accepted \in [Roles -> 0..MaxReminders]
    /\ reminded \in [Roles -> SUBSET (1..MaxReminders)]

RunTypes ==
    /\ event \in {"none", "frozen", "drifted"}
    /\ run \in [at : Places, todo : Seq(DOMAIN reply), cur : Nat, prev : Nat,
                roles : SUBSET Roles, who : Roles \cup {None}]
    /\ deaths \in 0..MaxDeaths

\* What is counted was validated, and no receipt has expired before the request has.
Counted ==
    /\ \A r \in Roles : current[r] \in {0} \cup validated
    /\ \A k \in DOMAIN receipts : \A r \in Roles : receipts[k].votes[r] \in {0} \cup validated
    /\ ~ expired => \A k \in DOMAIN receipts : receipts[k].status # "APPROVAL_EXPIRED"

Linked ==
    /\ \A i \in DOMAIN receipts : receipts[i].next = IF i = Len(receipts) THEN 0 ELSE i + 1
    /\ \A i, j \in DOMAIN receipts :
          i # j => receipts[i].votes # receipts[j].votes \/ receipts[i].status # receipts[j].status
    /\ Same \subseteq {Len(receipts)}

\* The run works with the last receipt and compares it with the one before.
RunLinked ==
    run.at \notin {"idle", "ingest"} =>
        run.cur = Len(receipts) /\ run.cur \in DOMAIN receipts /\ run.prev = run.cur - 1

\* A reminder that was accepted was sent, and has the next number.
ReminderSound ==
    /\ RemindersInOrder
    /\ run.at \in {"send", "accepted", "failed"} => run.who \in Roles /\ accepted[run.who] < MaxReminders
    /\ run.at = "accepted" => accepted[run.who] + 1 \in reminded[run.who]

RoundInv ==
    /\ MailTypes /\ DecisionTypes /\ ReceiptTypes /\ ReminderTypes /\ RunTypes
    /\ Counted /\ Linked /\ RunLinked /\ WithdrawalFlagged /\ ReminderSound

LEMMA RoundInit == ASSUME VerifierAssumption, Init PROVE RoundInv
<1>1. <<>> \in Seq([role : Roles, verdict : Verdicts]) /\ <<>> \in Seq(DOMAIN reply) /\ <<>> \in Seq(Rows)
      /\ Len(<<>>) = 0 /\ DOMAIN <<>> = {}
  OBVIOUS
<1>2. MailTypes /\ DecisionTypes /\ ReceiptTypes
  <2>1. MailTypes
    <3>1. reply = <<>> /\ box = <<>> /\ expired = FALSE
      BY DEF Init
    <3>2. 0 <= MaxReplies /\ 0 <= MaxArrivals
      BY DEF VerifierAssumption
    <3>3. reply \in Seq([role : Roles, verdict : Verdicts]) /\ box \in Seq(DOMAIN reply)
      BY <1>1, <3>1
    <3>4. Len(reply) = 0 /\ Len(box) = 0
      BY <1>1, <3>1
    <3>. QED BY <3>1, <3>2, <3>3, <3>4 DEF MailTypes
  <2>2. DecisionTypes
    BY DEF Init, DecisionTypes
  <2>3. ReceiptTypes
    <3>1. receipts = <<>> /\ flagged = {} /\ handed = {}
      BY DEF Init
    <3>. QED BY <1>1, <3>1 DEF ReceiptTypes
  <2>. QED BY <2>1, <2>2, <2>3
<1>3. ReminderTypes /\ RunTypes
  BY <1>1 DEF Init, VerifierAssumption, ReminderTypes, RunTypes, Idle, Places
<1>4. Counted /\ Linked /\ RunLinked /\ WithdrawalFlagged
  BY <1>1 DEF Init, Counted, Linked, Same, RunLinked, WithdrawalFlagged, Idle
<1>5. ReminderSound
  BY DEF Init, VerifierAssumption, ReminderSound, RemindersInOrder, Idle
<1>. QED BY <1>2, <1>3, <1>4, <1>5 DEF RoundInv

\* The replies and the receipts, one by one.
LEMMA RowFacts ==
    ASSUME VerifierAssumption, RoundInv
    PROVE  /\ Len(receipts) \in Nat /\ DOMAIN receipts = 1..Len(receipts)
           /\ \A k \in DOMAIN receipts : receipts[k] \in Rows
           /\ Len(reply) \in Nat /\ DOMAIN reply = 1..Len(reply) /\ DOMAIN reply \subseteq Ids
           /\ VotesOK
<1>1. Len(receipts) \in Nat /\ DOMAIN receipts = 1..Len(receipts) /\
         \A k \in DOMAIN receipts : receipts[k] \in Rows
  BY LenProperties, ElementOfSeq DEF RoundInv, ReceiptTypes
<1>2. Len(reply) \in Nat /\ DOMAIN reply = 1..Len(reply)
  BY LenProperties DEF RoundInv, MailTypes
<1>3. DOMAIN reply \subseteq Ids
  BY <1>2 DEF RoundInv, MailTypes, Ids, VerifierAssumption
<1>4. VotesOK
  BY DEF RoundInv, MailTypes, DecisionTypes, RunTypes, VotesOK
<1>. QED BY <1>1, <1>2, <1>3, <1>4

\* What the decisions and the receipts say depends on nothing else.
LEMMA LedgerStands ==
    ASSUME RoundInv, UNCHANGED <<expired, validated, current, receipts>>,
           \A r \in Roles : VerdictOf(current[r])' = VerdictOf(current[r])
    PROVE  Counted' /\ Linked'
<1>1. StatusOf(current)' = StatusOf(current)
  BY DEF StatusOf, Says, Silent
<1>2. Same' = Same
  BY <1>1 DEF Same
<1>. QED BY <1>2 DEF RoundInv, Counted, Linked

LEMMA SameReplies ==
    ASSUME UNCHANGED <<reply, current>> PROVE \A r \in Roles : VerdictOf(current[r])' = VerdictOf(current[r])
  BY DEF VerdictOf

\* Past the flag, the run compares the same two receipts.
LEMMA RunStands ==
    ASSUME RoundInv, UNCHANGED <<receipts, flagged>>,
           \/ run'.at \in {"idle", "ingest"}
           \/ /\ run.at \notin {"idle", "ingest", "flag"} /\ run'.cur = run.cur /\ run'.prev = run.prev
    PROVE  RunLinked' /\ WithdrawalFlagged'
<1>1. CASE run'.at \in {"idle", "ingest"}
  BY <1>1 DEF RunLinked, WithdrawalFlagged
<1>2. CASE run.at \notin {"idle", "ingest", "flag"} /\ run'.cur = run.cur /\ run'.prev = run.prev
  <2>1. run.at \in {"audit", "handoff", "consume", "remind", "send", "accepted", "failed"}
    BY <1>2 DEF RoundInv, RunTypes, Places
  <2>. QED BY <1>2, <2>1 DEF RoundInv, RunLinked, WithdrawalFlagged, Withdraws, Flag
<1>. QED BY <1>1, <1>2

\* Reminders.
LEMMA RemindersStand ==
    ASSUME RoundInv, UNCHANGED <<accepted, reminded>>,
           run'.at \notin {"send", "accepted", "failed"} \/ UNCHANGED run
    PROVE  ReminderTypes' /\ ReminderSound'
  BY DEF RoundInv, ReminderTypes, ReminderSound, RemindersInOrder

(***************************************************************************)
(* Mail arrives and is read                                                 *)
(***************************************************************************)
LEMMA RoundWorld == ASSUME VerifierAssumption, RoundInv, World PROVE RoundInv'
<1>1. UNCHANGED <<store, handed, reminded, run, deaths>>
  BY DEF World, Reply, Redeliver, Expire
<1>2. UNCHANGED <<event, validated, quarantined, current, receipts, flagged, accepted>>
  BY <1>1 DEF store, decisions
<1>3. VotesOK /\ Len(box) \in Nat /\ Len(reply) \in Nat
  BY RowFacts, LenProperties DEF RoundInv, MailTypes
<1>4. /\ MailTypes' /\ DOMAIN reply \subseteq DOMAIN reply'
      /\ \A i \in DOMAIN reply : reply'[i] = reply[i]
  <2>1. CASE Reply
    <3>1. PICK r \in Roles, d \in Verdicts : reply' = Append(reply, [role |-> r, verdict |-> d])
      BY <2>1 DEF Reply
    <3>. DEFINE S == [role : Roles, verdict : Verdicts]
                e == [role |-> r, verdict |-> d]
    <3>2. e \in S /\ reply \in Seq(S)
      BY DEF RoundInv, MailTypes
    <3>. HIDE DEF S, e
    <3>3. /\ reply' \in Seq(S) /\ DOMAIN reply \subseteq DOMAIN reply' /\ Len(reply) + 1 \in DOMAIN reply'
          /\ \A i \in DOMAIN reply : reply'[i] = reply[i]
      BY <3>1, <3>2, AppendKeeps DEF e
    <3>4. Len(reply') = Len(reply) + 1
      BY <3>1, <3>2, AppendProperties DEF e
    <3>5. box \in Seq(DOMAIN reply')
      BY <3>3, SeqMonotone DEF RoundInv, MailTypes
    <3>6. box' \in Seq(DOMAIN reply') /\ Len(box') = Len(box) + 1
      BY <2>1, <3>3, <3>5, AppendKeeps, AppendProperties DEF Reply
    <3>7. Len(reply') <= MaxReplies /\ Len(box') <= MaxArrivals
      BY <1>3, <2>1, <3>4, <3>6 DEF Reply, VerifierAssumption
    <3>8. UNCHANGED expired
      BY <2>1 DEF Reply
    <3>. QED BY <3>3, <3>6, <3>7, <3>8 DEF RoundInv, MailTypes, S
  <2>2. CASE Redeliver
    <3>1. PICK i \in DOMAIN reply : box' = Append(box, i)
      BY <2>2 DEF Redeliver
    <3>2. UNCHANGED <<reply, expired>> /\ Len(box) < MaxArrivals
      BY <2>2 DEF Redeliver
    <3>3. box' \in Seq(DOMAIN reply) /\ Len(box') = Len(box) + 1
      BY <3>1, AppendKeeps, AppendProperties DEF RoundInv, MailTypes
    <3>4. Len(box') <= MaxArrivals
      BY <1>3, <3>2, <3>3 DEF VerifierAssumption
    <3>. QED BY <3>2, <3>3, <3>4 DEF RoundInv, MailTypes
  <2>3. CASE Expire
    BY <2>3 DEF Expire, RoundInv, MailTypes
  <2>. QED BY <2>1, <2>2, <2>3 DEF World
<1>5. DecisionTypes' /\ ReceiptTypes' /\ RunTypes'
  <2>1. Seq(DOMAIN reply) \subseteq Seq(DOMAIN reply')
    BY <1>4, SeqMonotone
  <2>. QED BY <1>1, <1>2, <1>4, <2>1 DEF RoundInv, DecisionTypes, ReceiptTypes, RunTypes
<1>6. Counted' /\ Linked'
  <2>1. CASE ~ Expire
    <3>1. UNCHANGED expired
      BY <2>1 DEF World, Reply, Redeliver
    <3>2. ASSUME NEW r \in Roles PROVE VerdictOf(current[r])' = VerdictOf(current[r])
      BY <1>2, <1>3, <1>4 DEF VerdictOf, VotesOK
    <3>. QED BY <1>2, <3>1, <3>2, LedgerStands
  <2>2. CASE Expire
    <3>1. ~ expired /\ expired' /\ StatusOf(current)' = "APPROVAL_EXPIRED"
      BY <2>2 DEF Expire, StatusOf
    <3>2. Same' = {}
      BY <1>2, <3>1 DEF Same, RoundInv, Counted
    <3>. QED BY <1>2, <3>1, <3>2 DEF RoundInv, Counted, Linked
  <2>. QED BY <2>1, <2>2
<1>7. RunLinked' /\ WithdrawalFlagged'
  BY <1>1, <1>2 DEF RoundInv, RunLinked, WithdrawalFlagged, Withdraws, Flag
<1>8. ReminderTypes' /\ ReminderSound'
  BY <1>1, <1>2, RemindersStand
<1>. QED BY <1>4, <1>5, <1>6, <1>7, <1>8 DEF RoundInv

\* A step that leaves the mails, the decisions and the receipts as they are.
LEMMA RoundStands ==
    ASSUME VerifierAssumption, RoundInv, UNCHANGED <<mail, decisions, receipts>>,
           event' \in {"none", "frozen", "drifted"}, deaths' \in 0..MaxDeaths,
           flagged' \subseteq [prev : DOMAIN receipts, cur : DOMAIN receipts,
                               kind : {"RELEASE_HOLD_REQUESTED", "APPROVAL_REVOKED"}],
           handed' \subseteq DOMAIN receipts,
           run' \in [at : Places, todo : Seq(DOMAIN reply), cur : Nat, prev : Nat,
                     roles : SUBSET Roles, who : Roles \cup {None}],
           RunLinked', WithdrawalFlagged', ReminderTypes', ReminderSound'
    PROVE  RoundInv'
<1>. USE DEF mail, decisions
<1>1. MailTypes' /\ DecisionTypes'
  BY DEF RoundInv, MailTypes, DecisionTypes
<1>2. ReceiptTypes' /\ RunTypes'
  BY DEF RoundInv, ReceiptTypes, RunTypes
<1>3. Counted' /\ Linked'
  BY SameReplies, LedgerStands
<1>. QED BY <1>1, <1>2, <1>3 DEF RoundInv

\* The run ends.
LEMMA RoundEnds ==
    ASSUME VerifierAssumption, RoundInv,
           UNCHANGED <<mail, decisions, receipts, event, flagged, handed, accepted, reminded>>,
           Finish, deaths' \in 0..MaxDeaths
    PROVE  RoundInv'
<1>1. /\ run'.at = "idle"
      /\ run' \in [at : Places, todo : Seq(DOMAIN reply), cur : Nat, prev : Nat,
                   roles : SUBSET Roles, who : Roles \cup {None}]
  <2>1. <<>> \in Seq(DOMAIN reply)
    OBVIOUS
  <2>. QED BY <2>1 DEF Finish, Idle, Places
<1>2. RunLinked' /\ WithdrawalFlagged' /\ ReminderTypes' /\ ReminderSound'
  BY <1>1, RunStands, RemindersStand
<1>. QED BY <1>1, <1>2, RoundStands DEF RoundInv, ReceiptTypes, RunTypes

LEMMA RoundStarts == ASSUME VerifierAssumption, RoundInv, StartRun PROVE RoundInv'
<1>1. UNCHANGED <<mail, decisions, receipts, flagged, accepted, handed, reminded, deaths>>
  BY DEF StartRun
<1>2. /\ run'.at = "ingest"
      /\ run' \in [at : Places, todo : Seq(DOMAIN reply), cur : Nat, prev : Nat,
                   roles : SUBSET Roles, who : Roles \cup {None}]
  <2>1. Scanned \in Seq(DOMAIN reply)
    BY RowFacts, ScannedMails
  <2>2. run' = [at |-> "ingest", todo |-> Scanned, cur |-> 0, prev |-> 0, roles |-> {}, who |-> None]
    BY DEF StartRun, Idle
  <2>. QED BY <2>1, <2>2 DEF Places
<1>3. event' \in {"none", "frozen", "drifted"}
  BY DEF StartRun, IngestRequests, Frozen, RoundInv, RunTypes
<1>4. RunLinked' /\ WithdrawalFlagged' /\ ReminderTypes' /\ ReminderSound'
  BY <1>1, <1>2, RunStands, RemindersStand
<1>. QED BY <1>1, <1>2, <1>3, <1>4, RoundStands DEF RoundInv, ReceiptTypes, RunTypes

\* A decision that was never counted makes the decisions differ from all that were.
LEMMA RoundIngests == ASSUME VerifierAssumption, RoundInv, IngestReply PROVE RoundInv'
<1>. DEFINE i == Head(run.todo)
<1>1. /\ UNCHANGED <<mail, event, receipts, flagged, accepted, handed, reminded, deaths>>
      /\ run.at = "ingest" /\ run.todo \in Seq(DOMAIN reply) /\ run.todo # <<>> /\ Validate(i)
      /\ run' = [run EXCEPT !.todo = Tail(run.todo)]
  BY DEF IngestReply, RoundInv, RunTypes
<1>2. i \in DOMAIN reply /\ Tail(run.todo) \in Seq(DOMAIN reply)
  BY <1>1, HeadTailProperties
<1>. HIDE DEF i
<1>3. /\ run'.at = "ingest"
      /\ run' \in [at : Places, todo : Seq(DOMAIN reply), cur : Nat, prev : Nat,
                   roles : SUBSET Roles, who : Roles \cup {None}]
  BY <1>1, <1>2 DEF RoundInv, RunTypes
<1>4. RunLinked' /\ WithdrawalFlagged' /\ ReminderTypes' /\ ReminderSound'
  BY <1>1, <1>3, RunStands, RemindersStand
<1>5. MailTypes' /\ ReceiptTypes' /\ RunTypes'
  BY <1>1, <1>3 DEF mail, RoundInv, MailTypes, ReceiptTypes, RunTypes
<1>6. CASE UNCHANGED decisions
  BY <1>1, <1>3, <1>4, <1>6, RoundStands DEF RoundInv, ReceiptTypes, RunTypes
<1>7. CASE Quarantine(i)
  <2>1. /\ UNCHANGED <<validated, current>> /\ quarantined' = quarantined \cup {i} /\ i \notin validated
    BY <1>7 DEF Quarantine, Seen
  <2>2. DecisionTypes'
    BY <1>1, <1>2, <2>1 DEF mail, RoundInv, DecisionTypes
  <2>3. Counted' /\ Linked'
    BY <1>1, <2>1, SameReplies, LedgerStands DEF mail
  <2>. QED BY <1>4, <1>5, <2>2, <2>3 DEF RoundInv
<1>8. CASE RecordDecision(i)
  <2>1. /\ i \notin validated /\ i \notin quarantined /\ validated' = validated \cup {i} /\
           UNCHANGED quarantined
        /\ current' = [current EXCEPT ![reply[i].role] = i]
    BY <1>8 DEF RecordDecision, Seen
  <2>2. reply[i].role \in Roles /\ i # 0
    BY <1>2, RowFacts, ReplyTyped
  <2>3. DecisionTypes'
    BY <1>1, <1>2, <2>1, <2>2 DEF mail, RoundInv, DecisionTypes
  <2>4. Counted'
    BY <1>1, <2>1, <2>2 DEF mail, RoundInv, DecisionTypes, Counted
  <2>5. current'[reply[i].role] = i
    BY <2>1, <2>2 DEF RoundInv, DecisionTypes
  <2>6. Same' = {}
    <3>. SUFFICES ASSUME NEW k \in DOMAIN receipts PROVE receipts[k].votes # current'
      BY <1>1 DEF Same
    <3>1. receipts[k].votes[reply[i].role] # i
      BY <2>1, <2>2 DEF RoundInv, Counted
    <3>. QED BY <2>5, <3>1
  <2>7. Linked'
    BY <1>1, <2>6 DEF RoundInv, Linked
  <2>. QED BY <1>4, <1>5, <2>3, <2>4, <2>7 DEF RoundInv
<1>. QED BY <1>1, <1>6, <1>7, <1>8 DEF Validate

(***************************************************************************)
(* The receipt of the run                                                   *)
(***************************************************************************)
\* The first receipt that the last one superseded is the one before it.
LEMMA PredecessorOfLast ==
    ASSUME VerifierAssumption, RoundInv, Len(receipts) \in DOMAIN receipts
    PROVE  Predecessor(Len(receipts)) = Len(receipts) - 1
<1>. DEFINE n == Len(receipts)
            before == {j \in DOMAIN receipts : receipts[j].next = n}
<1>1. n \in Nat \ {0} /\ DOMAIN receipts = 1..n
  BY RowFacts
<1>2. \A j \in DOMAIN receipts : receipts[j].next = IF j = n THEN 0 ELSE j + 1
  BY DEF RoundInv, Linked
<1>. HIDE DEF n
<1>3. before = IF n = 1 THEN {} ELSE {n - 1}
  BY <1>1, <1>2
<1>4. Predecessor(n) = IF before = {} THEN 0 ELSE CHOOSE j \in before : \A k \in before : j <= k
  BY DEF Predecessor
<1>. HIDE DEF before
<1>5. CASE n = 1
  BY <1>3, <1>4, <1>5 DEF n
<1>6. CASE n # 1
  <2>1. n - 1 \in Nat
    BY <1>1
  <2>2. \A j \in {n - 1} : \A k \in {n - 1} : j <= k
    BY <2>1
  <2>3. (CHOOSE j \in {n - 1} : \A k \in {n - 1} : j <= k) = n - 1
    BY <2>2
  <2>. QED BY <1>3, <1>4, <1>6, <2>3 DEF n
<1>. QED BY <1>5, <1>6

LEMMA RoundFinds == ASSUME VerifierAssumption, RoundInv, ReceiptFound PROVE RoundInv'
<1>1. PICK i \in Same : run' = [run EXCEPT !.at = "flag", !.cur = i, !.prev = Predecessor(i)]
  BY DEF ReceiptFound
<1>2. UNCHANGED <<mail, event, decisions, receipts, flagged, accepted, handed, reminded, deaths>>
  BY DEF ReceiptFound, store
<1>3. i = Len(receipts) /\ i \in DOMAIN receipts /\ i \in Nat
  BY RowFacts DEF RoundInv, Linked, Same
<1>4. Predecessor(i) = i - 1 /\ i - 1 \in Nat
  BY <1>3, PredecessorOfLast, RowFacts
<1>5. /\ run'.at = "flag" /\ run'.cur = i /\ run'.prev = i - 1
      /\ run' \in [at : Places, todo : Seq(DOMAIN reply), cur : Nat, prev : Nat,
                   roles : SUBSET Roles, who : Roles \cup {None}]
  BY <1>1, <1>3, <1>4 DEF RoundInv, RunTypes, Places
<1>6. RunLinked' /\ WithdrawalFlagged'
  BY <1>2, <1>3, <1>5 DEF RunLinked, WithdrawalFlagged
<1>7. ReminderTypes' /\ ReminderSound'
  BY <1>2, <1>5, RemindersStand
<1>. QED BY <1>2, <1>5, <1>6, <1>7, RoundStands DEF RoundInv, ReceiptTypes, RunTypes

\* The receipts after a new one is recorded.
LEMMA Recorded ==
    ASSUME VerifierAssumption, RoundInv, RecordReceipt
    PROVE  LET new == Len(receipts) + 1
           IN  /\ receipts' \in Seq(Rows) /\ Len(receipts') = new /\ DOMAIN receipts' = 1..new
               /\ receipts'[new] = [votes |-> current, status |-> StatusOf(current),
                                    next |-> 0, consumed |-> FALSE]
               /\ \A i \in DOMAIN receipts :
                     receipts'[i] = [receipts[i] EXCEPT !.next = i + 1]
<1>. DEFINE new == Len(receipts) + 1
            row == [votes |-> current, status |-> StatusOf(current), next |-> 0, consumed |-> FALSE]
            kept == [i \in DOMAIN receipts |->
                        [receipts[i] EXCEPT !.next = IF @ = 0 THEN new ELSE @]]
<1>1. Len(receipts) \in Nat /\ DOMAIN receipts = 1..Len(receipts) /\
         \A k \in DOMAIN receipts : receipts[k] \in Rows
  BY RowFacts
<1>2. row \in Rows
  <2>1. current \in [Roles -> Ids]
    BY RowFacts DEF RoundInv, DecisionTypes, Ids, VerifierAssumption
  <2>2. StatusOf(current) \in Statuses
    BY DEF StatusOf, Statuses
  <2>. QED BY <2>1, <2>2 DEF Rows
<1>3. \A i \in DOMAIN receipts : kept[i] = [receipts[i] EXCEPT !.next = i + 1]
  <2>1. \A i \in DOMAIN receipts : receipts[i].next = IF i = Len(receipts) THEN 0 ELSE i + 1
    BY DEF RoundInv, Linked
  <2>2. ASSUME NEW i \in DOMAIN receipts PROVE (IF receipts[i].next = 0 THEN new ELSE receipts[i].next) = i + 1
    BY <1>1, <2>1
  <2>. QED BY <2>2
<1>4. \A i \in DOMAIN receipts : kept[i] \in Rows
  BY <1>1, <1>3 DEF Rows
<1>5. kept \in Seq(Rows) /\ Len(kept) = Len(receipts)
  <2>1. DOMAIN kept = 1..Len(receipts)
    BY <1>1
  <2>. HIDE DEF kept
  <2>2. kept \in [1..Len(receipts) -> Rows]
    <3>1. kept = [i \in 1..Len(receipts) |-> kept[i]]
      BY <2>1 DEF kept
    <3>. QED BY <1>1, <1>4, <3>1
  <2>. QED BY <1>1, <2>2, SeqDef, LenProperties
<1>6. receipts' = Append(kept, row)
  BY DEF RecordReceipt
<1>. HIDE DEF kept, row
<1>7. receipts' \in Seq(Rows) /\ Len(receipts') = new /\ receipts'[new] = row
      /\ \A i \in 1..Len(receipts) : receipts'[i] = kept[i]
  BY <1>2, <1>5, <1>6, AppendProperties
<1>8. DOMAIN receipts' = 1..new
  BY <1>7, LenProperties
<1>. QED BY <1>1, <1>3, <1>7, <1>8 DEF row

LEMMA RoundReconciles == ASSUME VerifierAssumption, RoundInv, Reconcile PROVE RoundInv'
<1>. DEFINE n == Len(receipts)
            new == n + 1
<1>1. /\ UNCHANGED <<mail, event, decisions, flagged, accepted, handed, reminded, deaths>>
      /\ Same = {} /\ run' = [run EXCEPT !.at = "flag", !.cur = new, !.prev = n]
  BY DEF Reconcile
<1>2. /\ receipts' \in Seq(Rows) /\ Len(receipts') = new /\ DOMAIN receipts' = 1..new
      /\ receipts'[new] = [votes |-> current, status |-> StatusOf(current),
                           next |-> 0, consumed |-> FALSE]
      /\ \A i \in DOMAIN receipts : receipts'[i] = [receipts[i] EXCEPT !.next = i + 1]
  BY Recorded DEF Reconcile
<1>3. /\ n \in Nat /\ DOMAIN receipts = 1..n /\ \A k \in DOMAIN receipts : receipts[k] \in Rows
      /\ DOMAIN receipts \subseteq DOMAIN receipts'
      /\ \A k \in DOMAIN receipts' : k = new \/ k \in DOMAIN receipts
      /\ new \notin DOMAIN receipts
  BY <1>2, RowFacts
<1>4. /\ receipts'[new].votes = current /\ receipts'[new].status = StatusOf(current)
      /\ receipts'[new].next = 0
  BY <1>2
<1>5. ASSUME NEW k \in DOMAIN receipts
      PROVE  /\ receipts'[k].votes = receipts[k].votes /\ receipts'[k].status = receipts[k].status
             /\ receipts'[k].next = k + 1
  BY <1>2, <1>3, ZenonT(30) DEF Rows
<1>6. UNCHANGED <<reply, expired, validated, quarantined, current>>
  BY <1>1 DEF mail, decisions
<1>7. StatusOf(current)' = StatusOf(current)
  BY <1>6 DEF StatusOf, Says, Silent, VerdictOf
<1>. HIDE DEF n
<1>8. MailTypes' /\ DecisionTypes' /\ ReceiptTypes'
  BY <1>1, <1>2, <1>3, <1>6 DEF mail, RoundInv, MailTypes, DecisionTypes, ReceiptTypes
<1>9. /\ run'.at = "flag" /\ run'.cur = new /\ run'.prev = n
      /\ RunTypes'
  <2>1. run \in [at : Places, todo : Seq(DOMAIN reply), cur : Nat, prev : Nat,
                roles : SUBSET Roles, who : Roles \cup {None}]
    BY DEF RoundInv, RunTypes
  <2>2. new \in Nat /\ n \in Nat /\ "flag" \in Places
    BY <1>3 DEF Places
  <2>. HIDE DEF new
  <2>3. /\ run'.at = "flag" /\ run'.cur = new /\ run'.prev = n
        /\ run' \in [at : Places, todo : Seq(DOMAIN reply), cur : Nat, prev : Nat,
                     roles : SUBSET Roles, who : Roles \cup {None}]
    BY <1>1, <2>1, <2>2
  <2>. QED BY <1>1, <1>6, <2>3 DEF RoundInv, RunTypes
<1>10. RunLinked' /\ WithdrawalFlagged'
  BY <1>2, <1>3, <1>9 DEF RunLinked, WithdrawalFlagged
<1>11. Counted'
  <2>1. ~ expired => StatusOf(current) # "APPROVAL_EXPIRED"
    BY DEF StatusOf
  <2>. QED BY <1>3, <1>4, <1>5, <1>6, <2>1 DEF RoundInv, Counted
<1>12. ASSUME NEW k \in DOMAIN receipts
       PROVE  receipts'[k].votes # current \/ receipts'[k].status # StatusOf(current)
  BY <1>1, <1>5 DEF Same
<1>13. Linked'
  <2>1. Same' \subseteq {new}
    BY <1>3, <1>6, <1>7, <1>12 DEF Same
  <2>2. ASSUME NEW i \in DOMAIN receipts' PROVE receipts'[i].next = IF i = new THEN 0 ELSE i + 1
    BY <1>3, <1>4, <1>5
  <2>3. ASSUME NEW i \in DOMAIN receipts', NEW j \in DOMAIN receipts', i # j
        PROVE  receipts'[i].votes # receipts'[j].votes \/ receipts'[i].status # receipts'[j].status
    <3>1. CASE i \in DOMAIN receipts /\ j \in DOMAIN receipts
      BY <1>5, <2>3, <3>1 DEF RoundInv, Linked
    <3>2. CASE i = new
      BY <1>3, <1>4, <1>12, <2>3, <3>2
    <3>3. CASE j = new
      BY <1>3, <1>4, <1>12, <2>3, <3>3
    <3>. QED BY <1>3, <3>1, <3>2, <3>3
  <2>. QED BY <1>2, <2>1, <2>2, <2>3 DEF Linked
<1>14. ReminderTypes' /\ ReminderSound'
  BY <1>1, <1>9, RemindersStand
<1>. QED BY <1>8, <1>9, <1>10, <1>11, <1>13, <1>14 DEF RoundInv

\* The only receipt that the one of the run can withdraw is the one before it.
LEMMA RoundFlags == ASSUME VerifierAssumption, RoundInv, RecordRevocation PROVE RoundInv'
<1>1. /\ UNCHANGED <<mail, event, decisions, receipts, accepted, handed, reminded, deaths>>
      /\ run.at = "flag" /\ run' = [run EXCEPT !.at = "audit"]
      /\ flagged' = IF run.prev # 0 /\ Withdraws(run.prev, run.cur)
                    THEN flagged \cup {Flag(run.prev, run.cur)} ELSE flagged
  BY DEF RecordRevocation, Goto
<1>2. /\ run'.at = "audit" /\ run'.cur = run.cur /\ run'.prev = run.prev
      /\ run' \in [at : Places, todo : Seq(DOMAIN reply), cur : Nat, prev : Nat,
                   roles : SUBSET Roles, who : Roles \cup {None}]
  BY <1>1 DEF RoundInv, RunTypes, Places
<1>3. /\ run.cur = Len(receipts) /\ run.cur \in DOMAIN receipts /\ run.prev = run.cur - 1
      /\ Len(receipts) \in Nat /\ DOMAIN receipts = 1..Len(receipts)
  BY <1>1, RowFacts DEF RoundInv, RunLinked
<1>4. flagged' \subseteq [prev : DOMAIN receipts, cur : DOMAIN receipts,
                          kind : {"RELEASE_HOLD_REQUESTED", "APPROVAL_REVOKED"}]
  <2>1. run.prev # 0 => Flag(run.prev, run.cur) \in [prev : DOMAIN receipts, cur : DOMAIN receipts,
                                                     kind : {"RELEASE_HOLD_REQUESTED", "APPROVAL_REVOKED"}]
    BY <1>3 DEF Flag
  <2>. QED BY <1>1, <2>1 DEF RoundInv, ReceiptTypes
<1>5. WithdrawalFlagged'
  <2>. SUFFICES ASSUME NEW i \in DOMAIN receipts, receipts[i].next = run.cur, Withdraws(i, run.cur)
                PROVE  Flag(i, run.cur) \in flagged'
    BY <1>1, <1>2 DEF WithdrawalFlagged, Withdraws, Flag
  <2>1. receipts[i].next = IF i = Len(receipts) THEN 0 ELSE i + 1
    BY DEF RoundInv, Linked
  <2>2. i = run.prev /\ i # 0
    BY <1>3, <2>1
  <2>. QED BY <1>1, <2>2
<1>6. RunLinked' /\ ReminderTypes' /\ ReminderSound'
  BY <1>1, <1>2, <1>3, RemindersStand DEF RunLinked
<1>. QED BY <1>1, <1>2, <1>4, <1>5, <1>6, RoundStands DEF RoundInv, ReceiptTypes, RunTypes

(***************************************************************************)
(* The handover and the reminders                                           *)
(***************************************************************************)
\* A step of the run past the flag that changes nothing but the run.
LEMMA RoundMoves ==
    ASSUME VerifierAssumption, RoundInv, run.at \notin {"idle", "ingest", "flag"},
           run'.cur = run.cur, run'.prev = run.prev,
           run' \in [at : Places, todo : Seq(DOMAIN reply), cur : Nat, prev : Nat,
                     roles : SUBSET Roles, who : Roles \cup {None}],
           UNCHANGED <<mail, event, decisions, receipts, flagged, deaths>>,
           handed' \subseteq DOMAIN receipts, ReminderTypes', ReminderSound'
    PROVE  RoundInv'
<1>1. RunLinked' /\ WithdrawalFlagged'
  <2>1. CASE run'.at \in {"idle", "ingest", "flag"}
    BY <2>1 DEF RoundInv, RunLinked, WithdrawalFlagged
  <2>2. CASE run'.at \notin {"idle", "ingest", "flag"}
    BY <2>2, RunStands
  <2>. QED BY <2>1, <2>2
<1>. QED BY <1>1, RoundStands DEF RoundInv, ReceiptTypes, RunTypes

LEMMA RoundAudits == ASSUME VerifierAssumption, RoundInv, Audit PROVE RoundInv'
<1>1. /\ UNCHANGED <<mail, event, decisions, receipts, flagged, accepted, handed, reminded, deaths>>
      /\ run.at = "audit"
  BY DEF Audit, store
<1>2. run.roles \in SUBSET Roles /\ run.who \in Roles \cup {None} /\ deaths \in 0..MaxDeaths
      /\ run \in [at : Places, todo : Seq(DOMAIN reply), cur : Nat, prev : Nat,
                  roles : SUBSET Roles, who : Roles \cup {None}]
  BY DEF RoundInv, RunTypes
<1>3. CASE run' = Idle
  BY <1>1, <1>2, <1>3, RoundEnds DEF Finish
<1>4. CASE run' = [run EXCEPT !.at = "remind", !.roles = {r \in Roles : current[r] = 0}]
  <2>1. /\ run'.at = "remind" /\ run'.cur = run.cur /\ run'.prev = run.prev
        /\ run' \in [at : Places, todo : Seq(DOMAIN reply), cur : Nat, prev : Nat,
                     roles : SUBSET Roles, who : Roles \cup {None}]
    BY <1>2, <1>4 DEF Places
  <2>2. ReminderTypes' /\ ReminderSound'
    BY <1>1, <2>1, RemindersStand
  <2>. QED BY <1>1, <2>1, <2>2, RoundMoves DEF RoundInv, ReceiptTypes
<1>5. CASE run' = [run EXCEPT !.at = "handoff"]
  <2>1. /\ run'.at = "handoff" /\ run'.cur = run.cur /\ run'.prev = run.prev
        /\ run' \in [at : Places, todo : Seq(DOMAIN reply), cur : Nat, prev : Nat,
                     roles : SUBSET Roles, who : Roles \cup {None}]
    BY <1>2, <1>5 DEF Places
  <2>2. ReminderTypes' /\ ReminderSound'
    BY <1>1, <2>1, RemindersStand
  <2>. QED BY <1>1, <2>1, <2>2, RoundMoves DEF RoundInv, ReceiptTypes
<1>. QED BY <1>3, <1>4, <1>5 DEF Audit

LEMMA RoundHandsOver == ASSUME VerifierAssumption, RoundInv, HandOff PROVE RoundInv'
<1>1. /\ UNCHANGED <<mail, event, decisions, receipts, flagged, accepted, reminded, deaths>>
      /\ run.at = "handoff" /\ handed' = handed \cup {run.cur}
      /\ run' = [run EXCEPT !.at = "consume"] \/ run' = Idle
  BY DEF HandOff, store
<1>2. run.roles \in SUBSET Roles /\ run.who \in Roles \cup {None} /\ deaths \in 0..MaxDeaths
      /\ run \in [at : Places, todo : Seq(DOMAIN reply), cur : Nat, prev : Nat,
                  roles : SUBSET Roles, who : Roles \cup {None}]
  BY DEF RoundInv, RunTypes
<1>3. handed' \subseteq DOMAIN receipts
  BY <1>1 DEF RoundInv, ReceiptTypes, RunLinked
<1>4. /\ run' \in [at : Places, todo : Seq(DOMAIN reply), cur : Nat, prev : Nat,
                   roles : SUBSET Roles, who : Roles \cup {None}]
      /\ \/ run'.at = "idle"
         \/ run'.at = "consume" /\ run'.cur = run.cur /\ run'.prev = run.prev
  <2>1. CASE run' = Idle
    <3>1. <<>> \in Seq(DOMAIN reply)
      OBVIOUS
    <3>. QED BY <2>1, <3>1 DEF Idle, Places
  <2>2. CASE run' = [run EXCEPT !.at = "consume"]
    BY <1>2, <2>2 DEF Places
  <2>. QED BY <1>1, <2>1, <2>2
<1>5. RunLinked' /\ WithdrawalFlagged' /\ ReminderTypes' /\ ReminderSound'
  BY <1>1, <1>4, RunStands, RemindersStand
<1>. QED BY <1>1, <1>2, <1>3, <1>4, <1>5, RoundStands DEF RoundInv, ReceiptTypes, RunTypes

\* Nothing compares the receipts by consumed.
LEMMA RoundConsumes == ASSUME VerifierAssumption, RoundInv, MarkConsumed PROVE RoundInv'
<1>1. /\ UNCHANGED <<mail, event, decisions, flagged, accepted, handed, reminded, deaths>>
      /\ run.at = "consume" /\ run' = Idle
      /\ receipts' = [receipts EXCEPT ![run.cur].consumed = TRUE]
  BY DEF MarkConsumed, Finish
<1>2. /\ run.cur \in DOMAIN receipts /\ receipts[run.cur] \in Rows /\ Len(receipts) \in Nat
      /\ DOMAIN receipts = 1..Len(receipts) /\ receipts \in Seq(Rows)
  BY <1>1, RowFacts DEF RoundInv, RunLinked, ReceiptTypes
<1>3. receipts' = [receipts EXCEPT ![run.cur] = [receipts[run.cur] EXCEPT !.consumed = TRUE]]
  BY <1>1
<1>4. [receipts[run.cur] EXCEPT !.consumed = TRUE] \in Rows
  BY <1>2 DEF Rows
<1>5. receipts' \in Seq(Rows) /\ Len(receipts') = Len(receipts) /\ DOMAIN receipts' = DOMAIN receipts
  BY <1>2, <1>3, <1>4, ExceptSeq
<1>6. ASSUME NEW k \in DOMAIN receipts
      PROVE  /\ receipts'[k].votes = receipts[k].votes /\ receipts'[k].status = receipts[k].status
             /\ receipts'[k].next = receipts[k].next
  BY <1>2, <1>3, RowFacts DEF Rows
<1>7. UNCHANGED <<reply, expired, validated, quarantined, current>>
  BY <1>1 DEF mail, decisions
<1>8. Same' = Same
  <2>1. StatusOf(current)' = StatusOf(current)
    BY <1>7 DEF StatusOf, Says, Silent, VerdictOf
  <2>. QED BY <1>5, <1>6, <1>7, <2>1 DEF Same
<1>9. Counted' /\ Linked'
  BY <1>5, <1>6, <1>7, <1>8 DEF RoundInv, Counted, Linked
<1>10. MailTypes' /\ DecisionTypes' /\ ReceiptTypes'
  BY <1>1, <1>5, <1>7 DEF mail, RoundInv, MailTypes, DecisionTypes, ReceiptTypes
<1>11. RunTypes' /\ run'.at = "idle"
  <2>1. <<>> \in Seq(DOMAIN reply)
    OBVIOUS
  <2>. QED BY <1>1, <1>7, <2>1 DEF RoundInv, RunTypes, Idle, Places
<1>12. RunLinked' /\ WithdrawalFlagged' /\ ReminderTypes' /\ ReminderSound'
  BY <1>1, <1>11, RemindersStand DEF RunLinked, WithdrawalFlagged
<1>. QED BY <1>9, <1>10, <1>11, <1>12 DEF RoundInv

LEMMA RoundPrepares ==
    ASSUME VerifierAssumption, RoundInv, NEW r \in Roles, PrepareReminder(r) PROVE RoundInv'
<1>1. /\ UNCHANGED <<mail, event, decisions, receipts, flagged, accepted, handed, reminded, deaths>>
      /\ run.at = "remind" /\ accepted[r] < MaxReminders
      /\ run' = [run EXCEPT !.at = "send", !.roles = @ \ {r}, !.who = r]
  BY DEF PrepareReminder, store
<1>2. /\ run'.at = "send" /\ run'.who = r /\ run'.cur = run.cur /\ run'.prev = run.prev
      /\ run' \in [at : Places, todo : Seq(DOMAIN reply), cur : Nat, prev : Nat,
                   roles : SUBSET Roles, who : Roles \cup {None}]
  BY <1>1 DEF RoundInv, RunTypes, Places
<1>3. ReminderTypes' /\ ReminderSound'
  BY <1>1, <1>2 DEF RoundInv, ReminderTypes, ReminderSound, RemindersInOrder
<1>. QED BY <1>1, <1>2, <1>3, RoundMoves DEF RoundInv, ReceiptTypes

\* A reminder that goes out has the number after those that were accepted.
LEMMA RoundSends == ASSUME VerifierAssumption, RoundInv, SendReminder PROVE RoundInv'
<1>1. PICK sent \in BOOLEAN, known \in BOOLEAN :
          /\ reminded' = IF sent THEN [reminded EXCEPT ![run.who] = @ \cup {accepted[run.who] + 1}]
                                 ELSE reminded
          /\ run' = [run EXCEPT !.at = IF sent /\ known THEN "accepted" ELSE "failed"]
  BY DEF SendReminder, Goto
<1>2. /\ UNCHANGED <<mail, event, decisions, receipts, flagged, accepted, handed, deaths>>
      /\ run.at = "send"
  BY DEF SendReminder, store
<1>. DEFINE p == IF sent /\ known THEN "accepted" ELSE "failed"
            w == run.who
<1>3. /\ p \in Places /\ run.roles \in SUBSET Roles /\ w \in Roles
      /\ run \in [at : Places, todo : Seq(DOMAIN reply), cur : Nat, prev : Nat,
                  roles : SUBSET Roles, who : Roles \cup {None}]
      /\ accepted[w] < MaxReminders /\ accepted[w] \in 0..MaxReminders /\ MaxReminders \in Nat
  BY <1>2 DEF RoundInv, RunTypes, ReminderTypes, ReminderSound, Places, VerifierAssumption
<1>4. /\ run'.at = p /\ run'.who = w /\ run'.cur = run.cur /\ run'.prev = run.prev
      /\ run' \in [at : Places, todo : Seq(DOMAIN reply), cur : Nat, prev : Nat,
                   roles : SUBSET Roles, who : Roles \cup {None}]
  BY <1>1, <1>3
<1>5. ReminderTypes' /\ ReminderSound'
  <2>1. CASE sent
    <3>1. reminded' = [reminded EXCEPT ![w] = @ \cup {accepted[w] + 1}] /\ accepted[w] + 1 \in 1..MaxReminders
      BY <1>1, <1>3, <2>1
    <3>2. /\ reminded' \in [Roles -> SUBSET (1..MaxReminders)]
          /\ reminded'[w] = reminded[w] \cup {accepted[w] + 1}
          /\ \A r \in Roles \ {w} : reminded'[r] = reminded[r]
      BY <1>3, <3>1 DEF RoundInv, ReminderTypes
    <3>3. RemindersInOrder'
      <4>. SUFFICES ASSUME NEW r \in Roles
                    PROVE  /\ 1..accepted[r] \subseteq reminded'[r]
                           /\ reminded'[r] \subseteq 1..(accepted[r] + 1)
        BY <1>2 DEF RemindersInOrder
      <4>1. /\ 1..accepted[r] \subseteq reminded[r]
            /\ reminded[r] \subseteq 1..(accepted[r] + 1)
        BY DEF RoundInv, ReminderSound, RemindersInOrder
      <4>. QED BY <1>3, <3>2, <4>1
    <3>. QED BY <1>2, <1>3, <1>4, <3>2, <3>3 DEF RoundInv, ReminderTypes, ReminderSound
  <2>2. CASE ~ sent
    BY <1>1, <1>2, <1>3, <1>4, <2>2 DEF RoundInv, ReminderTypes, ReminderSound, RemindersInOrder
  <2>. QED BY <2>1, <2>2
<1>. QED BY <1>2, <1>4, <1>5, RoundMoves DEF RoundInv, ReceiptTypes

LEMMA RoundCompletes == ASSUME VerifierAssumption, RoundInv, CompleteReminder PROVE RoundInv'
<1>1. /\ UNCHANGED <<mail, event, decisions, receipts, flagged, handed, reminded, deaths>>
      /\ run.at \in {"accepted", "failed"} /\ run' = [run EXCEPT !.at = "remind", !.who = None]
      /\ accepted' = IF run.at = "accepted" THEN [accepted EXCEPT ![run.who] = @ + 1] ELSE accepted
  BY DEF CompleteReminder
<1>. DEFINE w == run.who
<1>2. /\ run.roles \in SUBSET Roles /\ w \in Roles /\ "remind" \in Places
      /\ run \in [at : Places, todo : Seq(DOMAIN reply), cur : Nat, prev : Nat,
                  roles : SUBSET Roles, who : Roles \cup {None}]
      /\ accepted[w] < MaxReminders /\ accepted[w] \in 0..MaxReminders /\ MaxReminders \in Nat
  BY <1>1 DEF RoundInv, RunTypes, ReminderTypes, ReminderSound, Places, VerifierAssumption
<1>3. /\ run'.at = "remind" /\ run'.cur = run.cur /\ run'.prev = run.prev
      /\ run' \in [at : Places, todo : Seq(DOMAIN reply), cur : Nat, prev : Nat,
                   roles : SUBSET Roles, who : Roles \cup {None}]
  BY <1>1, <1>2
<1>4. ReminderTypes' /\ RemindersInOrder'
  <2>1. CASE run.at = "accepted"
    <3>1. /\ accepted' = [accepted EXCEPT ![w] = @ + 1] /\ accepted[w] + 1 \in 0..MaxReminders
          /\ accepted[w] + 1 \in reminded[w]
      BY <1>1, <1>2, <2>1 DEF RoundInv, ReminderSound
    <3>2. /\ accepted' \in [Roles -> 0..MaxReminders] /\ accepted'[w] = accepted[w] + 1
          /\ \A r \in Roles \ {w} : accepted'[r] = accepted[r]
      BY <1>2, <3>1 DEF RoundInv, ReminderTypes
    <3>3. RemindersInOrder'
      <4>. SUFFICES ASSUME NEW r \in Roles
                    PROVE  /\ 1..accepted'[r] \subseteq reminded[r]
                           /\ reminded[r] \subseteq 1..(accepted'[r] + 1)
        BY <1>1 DEF RemindersInOrder
      <4>1. /\ 1..accepted[r] \subseteq reminded[r]
            /\ reminded[r] \subseteq 1..(accepted[r] + 1)
        BY DEF RoundInv, ReminderSound, RemindersInOrder
      <4>. QED BY <1>2, <3>1, <3>2, <4>1
    <3>. QED BY <1>1, <3>2, <3>3 DEF RoundInv, ReminderTypes
  <2>2. CASE run.at # "accepted"
    BY <1>1, <2>2 DEF RoundInv, ReminderTypes, ReminderSound, RemindersInOrder
  <2>. QED BY <2>1, <2>2
<1>5. ReminderSound'
  BY <1>3, <1>4 DEF ReminderSound
<1>. QED BY <1>1, <1>3, <1>4, <1>5, RoundMoves DEF RoundInv, ReceiptTypes

(***************************************************************************)
(* What always holds                                                        *)
(***************************************************************************)
LEMMA RoundStep == ASSUME VerifierAssumption, RoundInv, [Next]_vars PROVE RoundInv'
<1>1. deaths \in 0..MaxDeaths
  BY DEF RoundInv, RunTypes
<1>2. CASE AuditFails \/ HandoffEnds \/ RemindersDone
  <2>1. UNCHANGED <<mail, decisions, receipts, event, flagged, handed, accepted, reminded, deaths>> /\ Finish
    BY <1>2 DEF AuditFails, HandoffEnds, RemindersDone, store
  <2>. QED BY <1>1, <2>1, RoundEnds
<1>3. CASE Die
  <2>1. UNCHANGED <<mail, decisions, receipts, event, flagged, handed, accepted, reminded>> /\ Finish
    BY <1>3 DEF Die, store
  <2>2. deaths' \in 0..MaxDeaths
    BY <1>1, <1>3 DEF Die, VerifierAssumption
  <2>. QED BY <2>1, <2>2, RoundEnds
<1>4. CASE UNCHANGED vars
  <2>1. UNCHANGED <<mail, event, decisions, receipts, flagged, accepted, handed, reminded, run, deaths>>
    BY <1>4 DEF vars, store
  <2>2. RunLinked' /\ WithdrawalFlagged'
    BY <2>1 DEF RoundInv, RunLinked, WithdrawalFlagged, Withdraws, Flag
  <2>3. ReminderTypes' /\ ReminderSound'
    BY <2>1, RemindersStand
  <2>. QED BY <2>1, <2>2, <2>3, RoundStands DEF RoundInv, ReceiptTypes, RunTypes
<1>5. CASE RunStep
  BY <1>2, <1>5, RoundIngests, RoundFinds, RoundReconciles, RoundFlags, RoundAudits, RoundHandsOver,
     RoundConsumes, RoundPrepares, RoundSends, RoundCompletes DEF RunStep
<1>. QED BY <1>3, <1>4, <1>5, RoundWorld, RoundStarts DEF Next

\* What a run_once() finds and leaves: the mails, the decisions, the chain of receipts
\* and the reminders agree with one another, whatever died before.
THEOREM RoundInductive == Spec => []RoundInv
<1>1. Init => RoundInv
  BY VerifierAssumption, RoundInit
<1>2. RoundInv /\ [Next]_vars => RoundInv'
  BY VerifierAssumption, RoundStep
<1>. QED BY <1>1, <1>2, PTL DEF Spec

\* Every variable keeps its type, run_once() and the two tables it writes included.
THEOREM VerifierTypes == Spec => []TypeOK
<1>1. RoundInv => TypeOK
  BY DEF RoundInv, MailTypes, DecisionTypes, ReceiptTypes, ReminderTypes, RunTypes, Rows, Statuses, TypeOK
<1>. QED BY <1>1, RoundInductive, PTL

\* reconcile() and record_receipt() keep one chain of receipts, in any order of the
\* replies and wherever a run dies.
THEOREM ReceiptsChain == Spec => []ReceiptChain
<1>1. RoundInv => ReceiptChain
  BY DEF RoundInv, Linked, RunLinked, ReceiptChain
<1>. QED BY <1>1, RoundInductive, PTL

\* _record_revocation_if_needed() runs before anything else is done with a receipt:
\* a withdrawn approval is flagged even when the run that saw it first died.
THEOREM WithdrawalsFlagged == Spec => []WithdrawalFlagged
<1>1. RoundInv => WithdrawalFlagged
  BY DEF RoundInv
<1>. QED BY <1>1, RoundInductive, PTL

\* prepare_reminder_attempt() and complete_reminder_attempt() number the reminders of
\* every role without gaps.
THEOREM RemindersOrdered == Spec => []RemindersInOrder
<1>1. RoundInv => RemindersInOrder
  BY DEF RoundInv, ReminderSound
<1>. QED BY <1>1, RoundInductive, PTL
=============================================================================
